---- MODULE Spec2Model ----
(***************************************************************************)
(* A model of the conference transcription bot:                            *)
(*   - the Pexip session orchestrator (services/pexip/PexipConnection.js   *)
(*     with its PexipApiClient and the WebRTCHandler it drives),           *)
(*   - the speaker tracker (services/ParticipantTracker.js),               *)
(*   - the audio chunk buffer (utils/AudioBuffer.js, AudioProcessor.js),   *)
(*   - the resampler (utils/AudioResampler.js),                            *)
(*   - the transcript manager (utils/TranscriptManager.js),                *)
(*   - the transcription adapters (services/transcription),                *)
(*   - the media session handler (services/webrtc/WebRTCHandler.js).       *)
(* Each subsystem has its own next-state relation and specification; the   *)
(* variables of the other subsystems stay at their initial values.         *)
(*                                                                         *)
(* JavaScript runs one callback at a time: an action is the code that runs *)
(* between two awaits (or one whole synchronous callback).  A pending      *)
(* await is a value of a program-counter variable.                         *)
(***************************************************************************)
EXTENDS Integers, Sequences, FiniteSets, TLC

\* ------------------------------------------------------------- bounds
\* connect() calls the external caller makes on one orchestrator object
MaxConnects == 2
\* ICE candidates the media engine gathers in all
MaxCandidates == 3
\* events one getEvents() response carries at most
MaxBatch == 2
\* the longest token lifetime (seconds) the bridge grants
MaxExpires == 130

\* participants the bridge reports
MaxParticipants == 2
\* entries of the speaking history
MaxHistory == 2
\* the last clock value (milliseconds since the tracker was made)
MaxTime == 2
\* participants one stage event lists at most
MaxStage == 1
\* samples fed to one track in all, and in one frame
MaxFed == 6
MaxFrame == 5
\* the track's sample rate (Hz) and the configured chunk duration (ms):
\* 2 samples per chunk
ModelSampleRate == 2000
ModelChunkDurationMs == 1

\* samples of one array handed to resampleAudio
MaxSamples == 7
\* final items the provider numbers, and addTranscription calls in all
MaxItems == 3
MaxAdds == 3
\* processAudioChunk calls on one adapter, samples of one chunk, provider
\* error messages, and the samples of one buffer unit (800 in the code)
MaxChunkCalls == 2
MaxChunkLen == 2
MaxErrors == 1
ModelBufferUnit == 1
\* commit messages one adapter sends
MaxCommits == 1
\* peer connections one media handler makes
MaxPcs == 2
\* initializeSession timers pending at once
MaxSessionTimers == 1
\* items the provider commits in one session
MaxCommitted == 4
\* dial-in requests the control server gets
MaxRequests == 2
\* conference aliases they name
MaxAliases == 2
\* the last value of the server's millisecond clock
MaxClock == 1

Uuids == 1..MaxParticipants

VARIABLES
  \* PexipConnection fields
  callUuid,              \* this.callUuid; 0 is null
  isRunning,             \* this.isRunning
  pendingIceCandidates,  \* this.pendingIceCandidates
  tokenRefreshTimer,     \* this.tokenRefreshTimer: a timer handle; 0 is null
  eventPollTimeout,      \* this.eventPollTimeout: a timer handle; 0 is null/undefined
  \* PexipApiClient field
  token,                 \* this.api.token is set
  \* WebRTCHandler / media engine
  pcOpen,                \* this.webrtc.pc is a peer connection (not null)
  remoteDesc,            \* pc.remoteDescription is set
  gathering,             \* setLocalDescription was called: candidates are gathered
  generated,             \* number of candidates the engine has delivered so far
  \* the JavaScript timer heap and requests in flight
  refreshTimers,         \* handles of scheduled, not yet fired refresh timers
  refreshInflight,       \* refreshToken requests awaiting their response
  \* the connect() call in progress
  connPc,                \* where connect() is: the await it is suspended at
  flushIdx,              \* index of the queued candidate whose send is awaited
  connects,              \* connect() calls made so far
  \* the poll loops (one per startEventPolling call) and disconnect() calls
  loops,                 \* loop id -> [pc, left]
  dpc,                   \* disconnect() caller -> the await it is suspended at
  \* observations of what the program did (history, not program state)
  queuedLog,             \* candidates pushed to the pending queue, in order
  sent,                  \* sendIceCandidate requests: <<candidate, callUuid used>>
  obs,                   \* counters and flags, see ObsInit
  \* ParticipantTracker fields
  participants,          \* this.participants: uuid -> participant, or NoParticipant
  currentSpeaker,        \* this.currentSpeaker; 0 is null
  speakingHistory,       \* this.speakingHistory: [uuid, startTime, endTime]; endTime 0 is null
  now,                   \* Date.now()
  \* AudioProcessor / AudioBuffer of one track
  audioBuffer,           \* this.buffers.get(trackId): an AudioBuffer, or NoBuffer
  fed,                   \* history: every sample handed to processAudioData
  chunks,                \* history: every chunk handed on, in emission order
  flushed,               \* history: flush() or stopTrack() was called
  flushSeq,              \* history: flips at every flush() call
  participantTracker,    \* this.participantTracker is set (not null)
  speakerLookups,        \* history: for every chunk handed to onChunkReady,
                         \* whether a tracker was set and the number of
                         \* getSpeakerAtTime calls made for the chunk
  \* the timing of the token refresh
  tokenExpiry,           \* this.api.tokenExpiry (seconds); 0 before a token
  refreshInterval,       \* delay (ms) of the refresh timer last scheduled;
                         \* 0 before one is scheduled
  \* one resampleAudio(samples, fromRate, toRate) call and the call back
  rsSamples,             \* samples
  rsFrom,                \* fromRate
  rsTo,                  \* toRate
  rsOut,                 \* resampleAudio(samples, fromRate, toRate)
  rsBack,                \* resampleAudio(rsOut, toRate, fromRate)
  \* TranscriptManager fields
  cleanTranscript,       \* this.cleanTranscript: the texts in arrival order
  orderedItems,          \* this.orderedItems: a Map in insertion order,
                         \* [itemId, previousItemId]
  \* a transcription adapter
  adapter,               \* the class constructed; "none" before
  vadOn,                 \* this.vadConfig is not null / this.vadEnabled
  isConnected,           \* this.isConnected
  ws,                    \* this.ws: "closed" (or null), "open", "closing"
  adapterBuffer,         \* this.audioBuffer: the chunks not yet sent
  chunkCalls,            \* history: processAudioChunk calls accepted
  received,              \* history: the resampled samples, in arrival order
  sentSamples,           \* history: the samples of the append messages sent
  sends,                 \* history: append messages sent
  commits,               \* history: commit messages sent
  statsErrors,           \* this.stats.errors
  errorEvents,           \* history: 'error' events emitted to listeners
  lastError,             \* history: [seq, code] of the last provider error
  sessionTimers,         \* pending initializeSession timers
  sessionConfigs,        \* history: session configuration messages sent on
                         \* the socket this.ws was last set to
  initThrew,             \* history: an initializeSession call threw
  \* the participant-event collaborator
  forwarded,             \* history: the events the orchestrator handed to it
  \* WebRTCHandler fields and the media engine
  pc,                    \* this.pc: a connection id; 0 is null
  pcCount,               \* connections made so far
  livePcs,               \* connections that are open with handlers installed
  iceConnectionState,    \* connection id -> its iceConnectionState
  tracked,               \* connections whose audio track was delivered
  pendingAudioTrack,     \* this.pendingAudioTrack: a track id; 0 is null
  audioSinks,            \* this.audioSinks: the tracks with a sink
  attachLog,             \* history: the attachAudioSink calls
  delivered,             \* history: onAudioData was called
  \* the item ordering of the OpenAIProvider adapter
  adapterPreviousItemId, \* this.previousItemId; 0 is null
  adapterCurrentItemId,  \* this.currentItemId; 0 is null
  committedItems,        \* the provider's items committed so far: 1..n
  completedItems,        \* the items whose transcription has completed
  finals,                \* history: the transcriptionComplete events emitted,
                         \* [itemId, previousItemId]
  \* the control server
  activeConnections,     \* the Map activeConnections, as the set of its
                         \* values [id, conferenceAlias, isActive, req]
  requests,              \* dial-in request -> [pc, conferenceAlias, id]: the
                         \* await the handler is suspended at, or its outcome
  joined,                \* the requests whose bot is in its conference
  clock                  \* Date.now() of the server

connVars == <<callUuid, isRunning, pendingIceCandidates, tokenRefreshTimer,
              eventPollTimeout, token, pcOpen, remoteDesc, gathering, generated,
              refreshTimers, refreshInflight, connPc, flushIdx, connects,
              loops, dpc, queuedLog, sent, obs>>

\* the fields a disconnect() call can touch
progVars == <<callUuid, isRunning, pendingIceCandidates, tokenRefreshTimer,
              eventPollTimeout, token, pcOpen, remoteDesc, gathering,
              refreshTimers, refreshInflight, connPc, flushIdx, dpc>>

trackerVars == <<participants, currentSpeaker, speakingHistory, now>>

audioVars ==
  <<audioBuffer, fed, chunks, flushed, flushSeq, participantTracker,
    speakerLookups>>

timingVars == <<tokenExpiry, refreshInterval>>

resampleVars == <<rsSamples, rsFrom, rsTo, rsOut, rsBack>>

\* the variables of the utilities and adapters
transcriptVars == <<cleanTranscript, orderedItems>>

sessionVars == <<sessionTimers, sessionConfigs, initThrew>>
adapterVars == <<adapter, vadOn, isConnected, ws, adapterBuffer, chunkCalls,
                 received, sentSamples, sends, commits, statsErrors,
                 errorEvents, lastError, sessionVars>>

\* the orchestrator's constructor takes one callback, onAudioData; what a
\* participant-event collaborator gets from it is kept here
collabVars == <<forwarded>>

mediaVars == <<pc, pcCount, livePcs, iceConnectionState, tracked,
               pendingAudioTrack, audioSinks, attachLog, delivered>>

orderVars ==
  <<adapterPreviousItemId, adapterCurrentItemId, committedItems,
    completedItems, finals>>

serverVars == <<activeConnections, requests, joined, clock>>

extVars == <<resampleVars, transcriptVars, adapterVars, collabVars, mediaVars, orderVars, serverVars>>

vars == <<connVars, trackerVars, audioVars, timingVars, extVars>>

LoopIds == 1..MaxConnects
\* disconnect() callers: 0 is the external caller (signal handler, server
\* route), l > 0 is poll loop l handling a bridge 'disconnect' event
DiscCallers == 0..MaxConnects

\* the awaited steps of connect(), in source order
StepRequestToken == 1
StepCreateOffer == 2
StepJoinCall == 3
StepSetRemoteAnswer == 4
StepSendAck == 5
StepStartPolling == 6

HttpStatus == {200, 403, 500}

ObsInit ==
  [ tokenRequests |-> 0,   \* api.requestToken calls
    lastStep |-> 0,        \* highest connect step begun by the current attempt
    failedAt |-> 0,        \* step of the current attempt that threw; 0 none
    thrown |-> FALSE,      \* connect() rejected to its caller
    runningAtCall |-> FALSE, \* isRunning when the current connect() was called
    activations |-> 0,     \* times connect() set isRunning = true
    passes |-> 0,          \* disconnect() calls that passed the isRunning guard
    stopCount |-> 0,       \* stopTokenRefresh + poll timeout clear performed
    closeCount |-> 0,      \* webrtc.disconnect() calls
    dcallCount |-> 0,      \* api.disconnectCall() calls
    relCount |-> 0,        \* api.releaseToken() calls
    callSeq |-> 0,         \* flips at every disconnect() call
    lastDisconnect |-> "none", \* what the latest disconnect() call did
    uncaught |-> FALSE,    \* an error escaped a timer or poll callback
    order |-> [d \in DiscCallers |-> <<>>], \* teardown steps of d's latest
                           \* disconnect() that found the session running
    lastStatus |-> 0,      \* status of the latest cleanup response; 0 none
    disconnectThrew |-> FALSE, \* disconnect() rejected to its caller
    refreshFailSeq |-> 0,  \* flips when the refresh callback catches an error
    pollFailSeq |-> 0 ]    \* flips when pollEvents catches an error

ConnInit ==
  /\ callUuid = 0
  /\ isRunning = FALSE
  /\ pendingIceCandidates = <<>>
  /\ tokenRefreshTimer = 0
  /\ eventPollTimeout = 0
  /\ token = FALSE
  /\ pcOpen = FALSE
  /\ remoteDesc = FALSE
  /\ gathering = FALSE
  /\ generated = 0
  /\ refreshTimers = {}
  /\ refreshInflight = 0
  /\ connPc = "idle"
  /\ flushIdx = 0
  /\ connects = 0
  /\ loops = [l \in LoopIds |-> [pc |-> "none", left |-> 0]]
  /\ dpc = [d \in DiscCallers |-> "idle"]
  /\ queuedLog = <<>>
  /\ sent = <<>>
  /\ obs = ObsInit

NoParticipant ==
  [present |-> FALSE, isSpeaking |-> FALSE, isMuted |-> FALSE,
   speakingStartTime |-> 0]

TrackerInit ==
  /\ participants = [u \in Uuids |-> NoParticipant]
  /\ currentSpeaker = 0
  /\ speakingHistory = <<>>
  /\ now = 1

NoBuffer == [present |-> FALSE]

AudioInit ==
  /\ audioBuffer = NoBuffer
  /\ fed = <<>>
  /\ chunks = <<>>
  /\ flushed = FALSE
  /\ flushSeq = 0
  /\ participantTracker = FALSE
  /\ speakerLookups = <<>>

TimingInit ==
  /\ tokenExpiry = 0
  /\ refreshInterval = 0

ResampleInit ==
  /\ rsSamples = <<>>
  /\ rsFrom = 48000
  /\ rsTo = 48000
  /\ rsOut = <<>>
  /\ rsBack = <<>>

TranscriptInit ==
  /\ cleanTranscript = <<>>
  /\ orderedItems = <<>>

AdapterInit ==
  /\ adapter = "none"
  /\ vadOn = FALSE
  /\ isConnected = FALSE
  /\ ws = "closed"
  /\ adapterBuffer = <<>>
  /\ chunkCalls = 0
  /\ received = <<>>
  /\ sentSamples = <<>>
  /\ sends = 0
  /\ commits = 0
  /\ statsErrors = 0
  /\ errorEvents = 0
  /\ lastError = [seq |-> 0, code |-> "none"]
  /\ sessionTimers = 0
  /\ sessionConfigs = 0
  /\ initThrew = FALSE

MediaInit ==
  /\ pc = 0
  /\ pcCount = 0
  /\ livePcs = {}
  /\ iceConnectionState = [p \in 1..MaxPcs |-> "none"]
  /\ tracked = {}
  /\ pendingAudioTrack = 0
  /\ audioSinks = {}
  /\ attachLog = <<>>
  /\ delivered = FALSE

\* the dial-in requests the server gets and the conferences they name
RequestIds == 1..MaxRequests
Aliases == 1..MaxAliases

NoRequest == [pc |-> "none", conferenceAlias |-> 0, id |-> <<0, 0>>]

ServerInit ==
  /\ activeConnections = {}
  /\ requests = [r \in RequestIds |-> NoRequest]
  /\ joined = {}
  /\ clock = 0

OrderInit ==
  /\ adapterPreviousItemId = 0
  /\ adapterCurrentItemId = 0
  /\ committedItems = 0
  /\ completedItems = {}
  /\ finals = <<>>

Init ==
  /\ ConnInit /\ TrackerInit /\ AudioInit /\ TimingInit
  /\ ResampleInit /\ TranscriptInit /\ AdapterInit
  /\ forwarded = <<>>
  /\ MediaInit
  /\ OrderInit
  /\ ServerInit

\* ------------------------------------------------------------- timers
\* setTimeout returns a handle no live reference names: not a scheduled
\* timer and not the handle the field still holds
FreshHandle(live) == CHOOSE h \in 1..(Cardinality(live) + 1) : h \notin live

\* startTokenRefresh(expires), mutated: the existing timer is not cleared
StartTokenRefreshNoClear ==
  LET h == FreshHandle(refreshTimers \cup {tokenRefreshTimer})
  IN  /\ refreshTimers' = refreshTimers \cup {h}
      /\ tokenRefreshTimer' = h

\* startTokenRefresh(expires): clear the existing timer, schedule a new one
StartTokenRefresh ==
  LET cleared == IF tokenRefreshTimer # 0
                   THEN refreshTimers \ {tokenRefreshTimer}
                   ELSE refreshTimers
      h == FreshHandle(cleared \cup {tokenRefreshTimer})
  IN  /\ refreshTimers' = cleared \cup {h}
      /\ tokenRefreshTimer' = h

\* stopTokenRefresh(): clearTimeout and forget the handle
StopTokenRefresh ==
  /\ refreshTimers' = IF tokenRefreshTimer # 0
                        THEN refreshTimers \ {tokenRefreshTimer}
                        ELSE refreshTimers
  /\ tokenRefreshTimer' = 0

\* ------------------------------------------------------------- connect()
\* the catch of connect(), mutated: the attempt is retried from step 1
ConnectCatchRetry(step) ==
  /\ connPc' = "requestToken"
  /\ obs' = [obs EXCEPT !.tokenRequests = @ + 1, !.lastStep = StepRequestToken]

\* catch (error) { throw error } of connect(): the attempt ends, the error
\* goes to the caller, nothing is undone
ConnectCatch(step) ==
  /\ connPc' = "failed"
  /\ obs' = [obs EXCEPT !.failedAt = step, !.thrown = TRUE]

\* connect(): the caller's call; runs up to the first await (requestToken)
Connect ==
  /\ connPc \in {"idle", "done", "failed"}
  /\ connects < MaxConnects
  /\ \A d \in DiscCallers : dpc[d] = "idle"
  /\ connects' = connects + 1
  /\ connPc' = "requestToken"
  /\ obs' = [obs EXCEPT !.tokenRequests = @ + 1, !.lastStep = StepRequestToken,
                        !.failedAt = 0, !.thrown = FALSE,
                        !.runningAtCall = isRunning]
  /\ UNCHANGED <<callUuid, isRunning, pendingIceCandidates, tokenRefreshTimer,
                 eventPollTimeout, token, pcOpen, remoteDesc, gathering,
                 generated, refreshTimers, refreshInflight, flushIdx, loops,
                 dpc, queuedLog, sent>>
  /\ UNCHANGED <<trackerVars, audioVars, timingVars, extVars>>

\* requestToken resolved: handleTokenResponse, startTokenRefresh,
\* createPeerConnection, setIceCandidateHandler, then pc.createOffer() is awaited
RequestTokenOk ==
  /\ connPc = "requestToken"
  /\ token' = TRUE
  /\ StartTokenRefresh
  /\ pcOpen' = TRUE
  /\ remoteDesc' = FALSE
  /\ connPc' = "createOffer"
  /\ obs' = [obs EXCEPT !.lastStep = StepCreateOffer]
  /\ UNCHANGED <<callUuid, isRunning, pendingIceCandidates, eventPollTimeout,
                 gathering, generated, refreshInflight, flushIdx, connects,
                 loops, dpc, queuedLog, sent>>
  /\ UNCHANGED <<trackerVars, audioVars, timingVars, extVars>>

\* requestToken threw (non-200, or the PIN retry was rejected)
RequestTokenFail ==
  /\ connPc = "requestToken"
  /\ ConnectCatch(StepRequestToken)
  /\ UNCHANGED <<callUuid, isRunning, pendingIceCandidates, tokenRefreshTimer,
                 eventPollTimeout, token, pcOpen, remoteDesc, gathering,
                 generated, refreshTimers, refreshInflight, flushIdx, connects,
                 loops, dpc, queuedLog, sent>>
  /\ UNCHANGED <<trackerVars, audioVars, timingVars, extVars>>

\* WebRTCHandler.createOffer: pc.createOffer() resolved, setLocalDescription
\* is called (this.pc is read again: null after webrtc.disconnect())
CreateOfferOk ==
  /\ connPc = "createOffer"
  /\ IF pcOpen
       THEN /\ connPc' = "setLocalDescription"
            /\ gathering' = TRUE
            /\ obs' = obs
       ELSE /\ ConnectCatch(StepCreateOffer)
            /\ gathering' = gathering
  /\ UNCHANGED <<callUuid, isRunning, pendingIceCandidates, tokenRefreshTimer,
                 eventPollTimeout, token, pcOpen, remoteDesc, generated,
                 refreshTimers, refreshInflight, flushIdx, connects, loops,
                 dpc, queuedLog, sent>>
  /\ UNCHANGED <<trackerVars, audioVars, timingVars, extVars>>

\* pc.createOffer() or pc.setLocalDescription() rejected
CreateOfferFail ==
  /\ connPc \in {"createOffer", "setLocalDescription"}
  /\ ConnectCatch(StepCreateOffer)
  /\ UNCHANGED <<callUuid, isRunning, pendingIceCandidates, tokenRefreshTimer,
                 eventPollTimeout, token, pcOpen, remoteDesc, gathering,
                 generated, refreshTimers, refreshInflight, flushIdx, connects,
                 loops, dpc, queuedLog, sent>>
  /\ UNCHANGED <<trackerVars, audioVars, timingVars, extVars>>

\* setLocalDescription resolved: createOffer returns, api.joinCall is awaited
SetLocalDescriptionOk ==
  /\ connPc = "setLocalDescription"
  /\ connPc' = "joinCall"
  /\ obs' = [obs EXCEPT !.lastStep = StepJoinCall]
  /\ UNCHANGED <<callUuid, isRunning, pendingIceCandidates, tokenRefreshTimer,
                 eventPollTimeout, token, pcOpen, remoteDesc, gathering,
                 generated, refreshTimers, refreshInflight, flushIdx, connects,
                 loops, dpc, queuedLog, sent>>
  /\ UNCHANGED <<trackerVars, audioVars, timingVars, extVars>>

\* await this.webrtc.setRemoteAnswer(sdp): this.pc.setRemoteDescription is
\* called; with this.pc null the call throws into connect()'s catch
CallSetRemoteAnswer ==
  IF pcOpen
    THEN /\ connPc' = "setRemoteAnswer"
         /\ obs' = [obs EXCEPT !.lastStep = StepSetRemoteAnswer]
    ELSE /\ connPc' = "failed"
         /\ obs' = [obs EXCEPT !.lastStep = StepSetRemoteAnswer,
                               !.failedAt = StepSetRemoteAnswer,
                               !.thrown = TRUE]

\* joinCall resolved: this.callUuid = callUuid; the flush loop starts and
\* awaits the send of the first queued candidate, or (empty queue) connect
\* goes on to setRemoteAnswer
JoinCallOk ==
  /\ connPc = "joinCall"
  /\ callUuid' = connects
  /\ IF Len(pendingIceCandidates) > 0
       THEN /\ sent' = Append(sent, <<pendingIceCandidates[1], callUuid'>>)
            /\ flushIdx' = 1
            /\ connPc' = "flush"
            /\ obs' = obs
       ELSE /\ CallSetRemoteAnswer
            /\ UNCHANGED <<sent, flushIdx>>
  /\ UNCHANGED <<isRunning, pendingIceCandidates, tokenRefreshTimer,
                 eventPollTimeout, token, pcOpen, remoteDesc, gathering,
                 generated, refreshTimers, refreshInflight, connects, loops,
                 dpc, queuedLog>>
  /\ UNCHANGED <<trackerVars, audioVars, timingVars, extVars>>

\* joinCall threw (axios rejects a non-2xx answer)
JoinCallFail ==
  /\ connPc = "joinCall"
  /\ ConnectCatch(StepJoinCall)
  /\ UNCHANGED <<callUuid, isRunning, pendingIceCandidates, tokenRefreshTimer,
                 eventPollTimeout, token, pcOpen, remoteDesc, gathering,
                 generated, refreshTimers, refreshInflight, flushIdx, connects,
                 loops, dpc, queuedLog, sent>>
  /\ UNCHANGED <<trackerVars, audioVars, timingVars, extVars>>

\* the awaited sendIceCandidate of the flush loop returned (it swallows its
\* errors): send the next queued candidate, or clear the queue and go on
FlushNext ==
  /\ connPc = "flush"
  /\ IF flushIdx < Len(pendingIceCandidates)
       THEN /\ sent' = Append(sent, <<pendingIceCandidates[flushIdx + 1], callUuid>>)
            /\ flushIdx' = flushIdx + 1
            /\ UNCHANGED <<pendingIceCandidates, connPc, obs>>
       ELSE /\ pendingIceCandidates' = <<>>
            /\ flushIdx' = 0
            /\ CallSetRemoteAnswer
            /\ sent' = sent
  /\ UNCHANGED <<callUuid, isRunning, tokenRefreshTimer, eventPollTimeout,
                 token, pcOpen, remoteDesc, gathering, generated, refreshTimers,
                 refreshInflight, connects, loops, dpc, queuedLog>>
  /\ UNCHANGED <<trackerVars, audioVars, timingVars, extVars>>

\* setRemoteAnswer resolved: api.sendAck(callUuid) is awaited
SetRemoteAnswerOk ==
  /\ connPc = "setRemoteAnswer"
  /\ remoteDesc' = pcOpen
  /\ connPc' = "sendAck"
  /\ obs' = [obs EXCEPT !.lastStep = StepSendAck]
  /\ UNCHANGED <<callUuid, isRunning, pendingIceCandidates, tokenRefreshTimer,
                 eventPollTimeout, token, pcOpen, gathering, generated,
                 refreshTimers, refreshInflight, flushIdx, connects, loops,
                 dpc, queuedLog, sent>>
  /\ UNCHANGED <<trackerVars, audioVars, timingVars, extVars>>

SetRemoteAnswerFail ==
  /\ connPc = "setRemoteAnswer"
  /\ ConnectCatch(StepSetRemoteAnswer)
  /\ UNCHANGED <<callUuid, isRunning, pendingIceCandidates, tokenRefreshTimer,
                 eventPollTimeout, token, pcOpen, remoteDesc, gathering,
                 generated, refreshTimers, refreshInflight, flushIdx, connects,
                 loops, dpc, queuedLog, sent>>
  /\ UNCHANGED <<trackerVars, audioVars, timingVars, extVars>>

\* startEventPolling(): pollEvents() runs to its first await; with
\* isRunning false it returns at once and no loop exists
StartEventPolling ==
  loops' = IF isRunning
             THEN [loops EXCEPT ![connects] = [pc |-> "polling", left |-> 0]]
             ELSE loops

\* sendAck resolved: startEventPolling(), then this.isRunning = true, return
SendAckOk ==
  /\ connPc = "sendAck"
  /\ StartEventPolling
  /\ isRunning' = TRUE
  /\ connPc' = "done"
  /\ obs' = [obs EXCEPT !.lastStep = StepStartPolling, !.activations = @ + 1]
  /\ UNCHANGED <<callUuid, pendingIceCandidates, tokenRefreshTimer,
                 eventPollTimeout, token, pcOpen, remoteDesc, gathering,
                 generated, refreshTimers, refreshInflight, flushIdx, connects,
                 dpc, queuedLog, sent>>
  /\ UNCHANGED <<trackerVars, audioVars, timingVars, extVars>>

SendAckFail ==
  /\ connPc = "sendAck"
  /\ ConnectCatch(StepSendAck)
  /\ UNCHANGED <<callUuid, isRunning, pendingIceCandidates, tokenRefreshTimer,
                 eventPollTimeout, token, pcOpen, remoteDesc, gathering,
                 generated, refreshTimers, refreshInflight, flushIdx, connects,
                 loops, dpc, queuedLog, sent>>
  /\ UNCHANGED <<trackerVars, audioVars, timingVars, extVars>>

\* ------------------------------------------------------------- ICE candidates
\* the handler of connect(), mutated: it never queues
IceCandidateHandlerNoQueue(c) ==
  /\ sent' = Append(sent, <<c, callUuid>>)
  /\ UNCHANGED <<pendingIceCandidates, queuedLog>>

\* the handler connect() installs: queue while callUuid is unset, else send
IceCandidateHandler(c) ==
  IF callUuid = 0
    THEN /\ pendingIceCandidates' = Append(pendingIceCandidates, c)
         /\ queuedLog' = Append(queuedLog, c)
         /\ sent' = sent
    ELSE /\ sent' = Append(sent, <<c, callUuid>>)
         /\ UNCHANGED <<pendingIceCandidates, queuedLog>>

\* pc.onicecandidate fires with the next gathered candidate
IceCandidate ==
  /\ gathering
  /\ generated < MaxCandidates
  /\ generated' = generated + 1
  /\ IceCandidateHandler(generated + 1)
  /\ UNCHANGED <<callUuid, isRunning, tokenRefreshTimer, eventPollTimeout,
                 token, pcOpen, remoteDesc, gathering, refreshTimers,
                 refreshInflight, connPc, flushIdx, connects, loops, dpc, obs>>
  /\ UNCHANGED <<trackerVars, audioVars, timingVars, extVars>>

\* ------------------------------------------------------------- event polling
\* the try/catch of pollEvents encloses getEvents and every handleEvent
PollErrorCaught == TRUE

\* the end of pollEvents, after the try/catch: if (this.isRunning)
\* this.eventPollTimeout = setTimeout(pollEvents, 100); the handle is named
\* after the loop (a loop has one timer at most)
EndIteration(l) ==
  /\ loops' = [loops EXCEPT ![l] =
                 IF isRunning THEN [pc |-> "timer", left |-> 0]
                              ELSE [pc |-> "none", left |-> 0]]
  /\ eventPollTimeout' = IF isRunning THEN l ELSE eventPollTimeout

\* the for loop of pollEvents goes to the next event of the batch
ContinueBatch(l, n) ==
  IF n > 0
    THEN /\ loops' = [loops EXCEPT ![l] = [pc |-> "handling", left |-> n]]
         /\ eventPollTimeout' = eventPollTimeout
    ELSE EndIteration(l)

\* an error thrown inside pollEvents, mutated: no try/catch, the rejection
\* ends the loop
PollCatchEscapes(l) ==
  /\ loops' = [loops EXCEPT ![l] = [pc |-> "none", left |-> 0]]
  /\ eventPollTimeout' = eventPollTimeout
  /\ obs' = [obs EXCEPT !.uncaught = TRUE, !.pollFailSeq = 1 - @]

\* an error thrown inside the try block of pollEvents: it is logged (not
\* even that for a timeout) and the iteration ends as any other
PollCatch(l) ==
  /\ EndIteration(l)
  /\ obs' = [obs EXCEPT !.uncaught = @ \/ ~PollErrorCaught,
                        !.pollFailSeq = 1 - @]

\* the 100 ms timer fires: pollEvents() runs to its first await
PollTimerFire(l) ==
  /\ loops[l].pc = "timer"
  /\ loops' = [loops EXCEPT ![l] =
                 IF isRunning THEN [pc |-> "polling", left |-> 0]
                              ELSE [pc |-> "none", left |-> 0]]
  /\ UNCHANGED <<callUuid, isRunning, pendingIceCandidates, tokenRefreshTimer,
                 eventPollTimeout, token, pcOpen, remoteDesc, gathering,
                 generated, refreshTimers, refreshInflight, connPc, flushIdx,
                 connects, dpc, queuedLog, sent, obs>>
  /\ UNCHANGED <<trackerVars, audioVars, timingVars, extVars>>

\* getEvents resolved with n events (none on a long-poll without news)
PollReturn(l, n) ==
  /\ loops[l].pc = "polling"
  /\ ContinueBatch(l, n)
  /\ UNCHANGED <<callUuid, isRunning, pendingIceCandidates, tokenRefreshTimer,
                 token, pcOpen, remoteDesc, gathering, generated, refreshTimers,
                 refreshInflight, connPc, flushIdx, connects, dpc, queuedLog,
                 sent, obs>>
  /\ UNCHANGED <<trackerVars, audioVars, timingVars, extVars>>

\* getEvents rejected (timeout ECONNABORTED or any other error)
PollFail(l) ==
  /\ loops[l].pc = "polling"
  /\ PollCatch(l)
  /\ UNCHANGED <<callUuid, isRunning, pendingIceCandidates, tokenRefreshTimer,
                 token, pcOpen, remoteDesc, gathering, generated, refreshTimers,
                 refreshInflight, connPc, flushIdx, connects, dpc, queuedLog,
                 sent>>
  /\ UNCHANGED <<trackerVars, audioVars, timingVars, extVars>>

\* handleEvent, case 'new_offer': webrtc.handleRemoteOffer is awaited; with
\* this.pc null it throws
HandleNewOffer(l) ==
  /\ loops[l].pc = "handling"
  /\ IF pcOpen
       THEN /\ loops' = [loops EXCEPT ![l].pc = "offer"]
            /\ UNCHANGED <<eventPollTimeout, obs>>
       ELSE PollCatch(l)
  /\ UNCHANGED <<callUuid, isRunning, pendingIceCandidates, tokenRefreshTimer,
                 token, pcOpen, remoteDesc, gathering, generated, refreshTimers,
                 refreshInflight, connPc, flushIdx, connects, dpc, queuedLog,
                 sent>>
  /\ UNCHANGED <<trackerVars, audioVars, timingVars, extVars>>

\* handleRemoteOffer resolved (ok) or threw; then api.sendAck(callUuid, sdp)
OfferReturn(l, ok) ==
  /\ loops[l].pc = "offer"
  /\ IF ok /\ pcOpen
       THEN /\ remoteDesc' = TRUE
            /\ loops' = [loops EXCEPT ![l].pc = "ack"]
            /\ UNCHANGED <<eventPollTimeout, obs>>
       ELSE /\ remoteDesc' = remoteDesc
            /\ PollCatch(l)
  /\ UNCHANGED <<callUuid, isRunning, pendingIceCandidates, tokenRefreshTimer,
                 token, pcOpen, gathering, generated, refreshTimers,
                 refreshInflight, connPc, flushIdx, connects, dpc, queuedLog,
                 sent>>
  /\ UNCHANGED <<trackerVars, audioVars, timingVars, extVars>>

\* the sendAck of a renegotiation resolved (ok) or threw
AckReturn(l, ok) ==
  /\ loops[l].pc = "ack"
  /\ IF ok
       THEN /\ ContinueBatch(l, loops[l].left - 1)
            /\ obs' = obs
       ELSE PollCatch(l)
  /\ UNCHANGED <<callUuid, isRunning, pendingIceCandidates, tokenRefreshTimer,
                 token, pcOpen, remoteDesc, gathering, generated, refreshTimers,
                 refreshInflight, connPc, flushIdx, connects, dpc, queuedLog,
                 sent>>
  /\ UNCHANGED <<trackerVars, audioVars, timingVars, extVars>>

\* handleEvent, case 'new_candidate': webrtc.addIceCandidate adds it only
\* with a pc that has a remote description; pc.addIceCandidate may reject
HandleNewCandidate(l, ok) ==
  /\ loops[l].pc = "handling"
  /\ IF ok \/ ~(pcOpen /\ remoteDesc)
       THEN /\ ContinueBatch(l, loops[l].left - 1)
            /\ obs' = obs
       ELSE PollCatch(l)
  /\ UNCHANGED <<callUuid, isRunning, pendingIceCandidates, tokenRefreshTimer,
                 token, pcOpen, remoteDesc, gathering, generated, refreshTimers,
                 refreshInflight, connPc, flushIdx, connects, dpc, queuedLog,
                 sent>>
  /\ UNCHANGED <<trackerVars, audioVars, timingVars, extVars>>

\* the events of the bridge that handleEvent has no case for
ParticipantEvents ==
  {"participant_create", "participant_update", "participant_delete", "stage"}
OtherEvents == ParticipantEvents \cup {"conference_update"}

\* handleEvent, default case: participant_* and stage events are passed over
\* in silence, any other event is logged
HandleOtherEvent(l, kind) ==
  /\ loops[l].pc = "handling"
  /\ ContinueBatch(l, loops[l].left - 1)
  /\ UNCHANGED <<callUuid, isRunning, pendingIceCandidates, tokenRefreshTimer,
                 token, pcOpen, remoteDesc, gathering, generated, refreshTimers,
                 refreshInflight, connPc, flushIdx, connects, dpc, queuedLog,
                 sent, obs>>
  /\ UNCHANGED <<trackerVars, audioVars, timingVars, extVars>>

\* ------------------------------------------------------------- token refresh
\* the try/catch of the refresh timer callback
RefreshErrorCaught == TRUE

\* the refresh timer callback, mutated: no isRunning test
RefreshTimerFireNoGuard(h) ==
  /\ h \in refreshTimers
  /\ refreshTimers' = refreshTimers \ {h}
  /\ refreshInflight' = IF token THEN refreshInflight + 1 ELSE refreshInflight
  /\ obs' = obs
  /\ UNCHANGED <<callUuid, isRunning, pendingIceCandidates, tokenRefreshTimer,
                 eventPollTimeout, token, pcOpen, remoteDesc, gathering,
                 generated, connPc, flushIdx, connects, loops, dpc, queuedLog,
                 sent>>
  /\ UNCHANGED <<trackerVars, audioVars, timingVars, extVars>>

\* the refresh timer fires: if (!this.isRunning) return; else
\* api.refreshToken() is awaited (it throws at once without a token)
RefreshTimerFire(h) ==
  /\ h \in refreshTimers
  /\ refreshTimers' = refreshTimers \ {h}
  /\ IF isRunning /\ token
       THEN refreshInflight' = refreshInflight + 1
       ELSE refreshInflight' = refreshInflight
  /\ obs' = IF isRunning /\ ~token
              THEN [obs EXCEPT !.uncaught = @ \/ ~RefreshErrorCaught,
                               !.refreshFailSeq = 1 - @]
              ELSE obs
  /\ UNCHANGED <<callUuid, isRunning, pendingIceCandidates, tokenRefreshTimer,
                 eventPollTimeout, token, pcOpen, remoteDesc, gathering,
                 generated, connPc, flushIdx, connects, loops, dpc, queuedLog,
                 sent>>
  /\ UNCHANGED <<trackerVars, audioVars, timingVars, extVars>>

\* refreshToken resolved: the token is replaced, the next refresh scheduled
RefreshOk ==
  /\ refreshInflight > 0
  /\ refreshInflight' = refreshInflight - 1
  /\ token' = TRUE
  /\ StartTokenRefresh
  /\ UNCHANGED <<callUuid, isRunning, pendingIceCandidates, eventPollTimeout,
                 pcOpen, remoteDesc, gathering, generated, connPc, flushIdx,
                 connects, loops, dpc, queuedLog, sent, obs>>
  /\ UNCHANGED <<trackerVars, audioVars, timingVars, extVars>>

\* refreshToken threw: logged, nothing is rescheduled
RefreshFail ==
  /\ refreshInflight > 0
  /\ refreshInflight' = refreshInflight - 1
  /\ obs' = [obs EXCEPT !.uncaught = @ \/ ~RefreshErrorCaught,
                        !.refreshFailSeq = 1 - @]
  /\ UNCHANGED <<callUuid, isRunning, pendingIceCandidates, tokenRefreshTimer,
                 eventPollTimeout, token, pcOpen, remoteDesc, gathering,
                 generated, refreshTimers, connPc, flushIdx, connects, loops,
                 dpc, queuedLog, sent>>
  /\ UNCHANGED <<trackerVars, audioVars, timingVars, extVars>>

\* ------------------------------------------------------------- disconnect()
\* the guard of disconnect(), mutated: every call tears down
DisconnectGuardAlways == TRUE

\* if (!this.isRunning) { return } : only a running session is torn down
DisconnectGuard == isRunning

\* the synchronous teardown statements of disconnect(), in source order,
\* mutated: the media session is closed last but one
DisconnectStepsPollLast ==
  <<"stopTokenRefresh", "closeMedia", "stopPolling">>

\* the synchronous teardown statements of disconnect(), in source order
DisconnectSteps ==
  <<"stopTokenRefresh", "stopPolling", "closeMedia">>

\* disconnect() called by d; runs to its first await.  Not running: it
\* returns at once.  Running: isRunning = false, stopTokenRefresh, the poll
\* timeout is cleared, webrtc.disconnect() closes the peer connection, and
\* the 100 ms grace delay is awaited
Disconnect(d) ==
  IF ~DisconnectGuard
    THEN /\ obs' = [obs EXCEPT !.callSeq = 1 - @, !.lastDisconnect = "noop"]
         /\ IF d > 0
              THEN ContinueBatch(d, loops[d].left - 1)
              ELSE UNCHANGED <<loops, eventPollTimeout>>
         /\ UNCHANGED <<isRunning, tokenRefreshTimer, refreshTimers, pcOpen,
                        remoteDesc, gathering, dpc>>
    ELSE /\ isRunning' = FALSE
         /\ StopTokenRefresh
         /\ loops' = [l \in LoopIds |->
                        IF l = d THEN [loops[l] EXCEPT !.pc = "disconnect"]
                        ELSE IF eventPollTimeout = l /\ loops[l].pc = "timer"
                               THEN [pc |-> "none", left |-> 0]
                               ELSE loops[l]]
         /\ eventPollTimeout' = 0
         /\ pcOpen' = FALSE
         /\ remoteDesc' = FALSE
         /\ gathering' = FALSE
         /\ dpc' = [dpc EXCEPT ![d] = "grace"]
         /\ obs' = [obs EXCEPT !.callSeq = 1 - @, !.lastDisconnect = "teardown",
                               !.passes = @ + 1, !.stopCount = @ + 1,
                               !.closeCount = @ + 1,
                               !.order[d] = DisconnectSteps]

\* the external caller (signal handler, server route, error path) calls
\* disconnect(); its previous call may still be in progress
ExternalDisconnect ==
  /\ dpc[0] = "idle" \/ ~DisconnectGuard
  /\ Disconnect(0)
  /\ UNCHANGED <<callUuid, pendingIceCandidates, token, generated,
                 refreshInflight, connPc, flushIdx, connects, queuedLog, sent>>
  /\ UNCHANGED <<trackerVars, audioVars, timingVars, extVars>>

\* handleEvent, case 'disconnect': await this.disconnect()
HandleDisconnectEvent(l) ==
  /\ loops[l].pc = "handling"
  /\ Disconnect(l)
  /\ UNCHANGED <<callUuid, pendingIceCandidates, token, generated,
                 refreshInflight, connPc, flushIdx, connects, queuedLog, sent>>
  /\ UNCHANGED <<trackerVars, audioVars, timingVars, extVars>>

\* disconnect() returns to its caller; a poll loop goes on with its batch
FinishDisconnect(d) ==
  /\ dpc' = [dpc EXCEPT ![d] = "idle"]
  /\ IF d > 0
       THEN ContinueBatch(d, loops[d].left - 1)
       ELSE UNCHANGED <<loops, eventPollTimeout>>

\* api.releaseToken(): if (!this.token) return; else the request is awaited
ReleaseToken(d) ==
  IF token
    THEN /\ dpc' = [dpc EXCEPT ![d] = "releaseToken"]
         /\ UNCHANGED <<loops, eventPollTimeout>>
    ELSE FinishDisconnect(d)

\* the grace delay is over: api.disconnectCall(this.callUuid) returns at
\* once without a call id or token (releaseToken follows), else it is awaited
GraceDone(d) ==
  /\ dpc[d] = "grace"
  /\ IF callUuid = 0 \/ ~token
       THEN /\ ReleaseToken(d)
            /\ obs' = [obs EXCEPT !.dcallCount = @ + 1, !.relCount = @ + 1,
                                  !.order[d] = @ \o <<"disconnectCall",
                                                      "releaseToken">>]
       ELSE /\ dpc' = [dpc EXCEPT ![d] = "disconnectCall"]
            /\ obs' = [obs EXCEPT !.dcallCount = @ + 1,
                                  !.order[d] = Append(@, "disconnectCall")]
            /\ UNCHANGED <<loops, eventPollTimeout>>
  /\ UNCHANGED <<callUuid, isRunning, pendingIceCandidates, tokenRefreshTimer,
                 token, pcOpen, remoteDesc, gathering, generated, refreshTimers,
                 refreshInflight, connPc, flushIdx, connects, queuedLog, sent>>
  /\ UNCHANGED <<trackerVars, audioVars, timingVars, extVars>>

\* the try/catch around the two cleanup calls in disconnect(): an error
\* either of them lets through ends disconnect() without reaching its caller
DisconnectErrorCaught == TRUE

\* the catch of disconnectCall, mutated: a 403 is thrown on
DisconnectCallCatchRethrow403(st) == st # 403

\* the catch of disconnectCall: 403 is logged as 'already disconnected',
\* any other error is logged; none is thrown on
DisconnectCallCatch(st) == TRUE

\* the catch of releaseToken: 403 is logged as 'already released', any
\* other error is logged; none is thrown on
ReleaseTokenCatch(st) == TRUE

\* the disconnect request returned with status st (axios rejects every
\* status but 2xx); the error is swallowed and releaseToken() is called
DisconnectCallReturn(d, st) ==
  /\ dpc[d] = "disconnectCall"
  /\ IF st = 200 \/ DisconnectCallCatch(st)
       THEN /\ ReleaseToken(d)
            /\ obs' = [obs EXCEPT !.relCount = @ + 1, !.lastStatus = st,
                                  !.order[d] = Append(@, "releaseToken")]
       ELSE /\ FinishDisconnect(d)
            /\ obs' = [obs EXCEPT !.lastStatus = st,
                                  !.disconnectThrew = @ \/ ~DisconnectErrorCaught]
  /\ UNCHANGED <<callUuid, isRunning, pendingIceCandidates, tokenRefreshTimer,
                 token, pcOpen, remoteDesc, gathering, generated, refreshTimers,
                 refreshInflight, connPc, flushIdx, connects, queuedLog, sent>>
  /\ UNCHANGED <<trackerVars, audioVars, timingVars, extVars>>

\* the release_token request returned with status st; the error is
\* swallowed and this.token = null
ReleaseReturn(d, st) ==
  /\ dpc[d] = "releaseToken"
  /\ IF st = 200 \/ ReleaseTokenCatch(st)
       THEN /\ token' = FALSE
            /\ obs' = [obs EXCEPT !.lastStatus = st]
       ELSE /\ token' = token
            /\ obs' = [obs EXCEPT !.lastStatus = st,
                                  !.disconnectThrew = @ \/ ~DisconnectErrorCaught]
  /\ FinishDisconnect(d)
  /\ UNCHANGED <<callUuid, isRunning, pendingIceCandidates, tokenRefreshTimer,
                 pcOpen, remoteDesc, gathering, generated, refreshTimers,
                 refreshInflight, connPc, flushIdx, connects, queuedLog, sent>>
  /\ UNCHANGED <<trackerVars, audioVars, timingVars, extVars>>

\* ------------------------------------------------------------- specification
ConnNext ==
  \/ Connect
  \/ RequestTokenOk
  \/ RequestTokenFail
  \/ CreateOfferOk
  \/ CreateOfferFail
  \/ SetLocalDescriptionOk
  \/ JoinCallOk
  \/ JoinCallFail
  \/ SetRemoteAnswerOk
  \/ SetRemoteAnswerFail
  \/ SendAckOk
  \/ SendAckFail
  \/ \E l \in LoopIds : PollTimerFire(l)
  \/ \E l \in LoopIds, n \in 0..MaxBatch : PollReturn(l, n)
  \/ \E l \in LoopIds : PollFail(l)
  \/ \E l \in LoopIds : HandleNewOffer(l)
  \/ \E l \in LoopIds, ok \in BOOLEAN : OfferReturn(l, ok)
  \/ \E l \in LoopIds, ok \in BOOLEAN : AckReturn(l, ok)
  \/ \E l \in LoopIds, kind \in OtherEvents : HandleOtherEvent(l, kind)
  \/ \E l \in LoopIds, ok \in BOOLEAN : HandleNewCandidate(l, ok)
  \/ \E l \in LoopIds : HandleDisconnectEvent(l)
  \/ \E h \in refreshTimers : RefreshTimerFire(h)
  \/ RefreshOk
  \/ RefreshFail
  \/ ExternalDisconnect
  \/ \E d \in DiscCallers : GraceDone(d)
  \/ \E d \in DiscCallers, st \in HttpStatus : DisconnectCallReturn(d, st)
  \/ \E d \in DiscCallers, st \in HttpStatus : ReleaseReturn(d, st)

\* the orchestrator with a peer connection that gathers no local candidate
Spec == Init /\ [][ConnNext]_vars

\* connection establishment and teardown with local ICE gathering: the
\* onicecandidate callback may run between any two steps of connect()
IceNext ==
  \/ Connect
  \/ RequestTokenOk
  \/ RequestTokenFail
  \/ CreateOfferOk
  \/ CreateOfferFail
  \/ SetLocalDescriptionOk
  \/ JoinCallOk
  \/ JoinCallFail
  \/ FlushNext
  \/ SetRemoteAnswerOk
  \/ SetRemoteAnswerFail
  \/ SendAckOk
  \/ SendAckFail
  \/ IceCandidate
  \/ ExternalDisconnect
  \/ \E d \in DiscCallers : GraceDone(d)
  \/ \E d \in DiscCallers, st \in HttpStatus : DisconnectCallReturn(d, st)
  \/ \E d \in DiscCallers, st \in HttpStatus : ReleaseReturn(d, st)

SpecIce == Init /\ [][IceNext]_vars

\* ------------------------------------------------------------- ParticipantTracker
\* The tracker's state as one value, so that a handler's calls compose.
\* Of a participant the model keeps the fields the handlers test
\* (isSpeaking, isMuted, speakingStartTime); displayName, role, joinTime,
\* lastSpokeAt and totalSpeakingTime are written and never tested.
TrackerState ==
  [participants |-> participants, currentSpeaker |-> currentSpeaker,
   speakingHistory |-> speakingHistory]

\* onStopSpeaking(participant) at time t
OnStopSpeaking(st, u, t) ==
  IF ~st.participants[u].isSpeaking
    THEN st
    ELSE LET h == st.speakingHistory
             n == Len(h)
         IN  [participants |->
                [st.participants EXCEPT ![u].isSpeaking = FALSE,
                                        ![u].speakingStartTime = 0],
              speakingHistory |->
                IF n > 0 /\ h[n].uuid = u /\ h[n].endTime = 0
                  THEN [h EXCEPT ![n].endTime = t]
                  ELSE h,
              currentSpeaker |->
                IF st.currentSpeaker = u THEN 0 ELSE st.currentSpeaker]

\* onStartSpeaking(participant) at time t: the participant becomes the
\* current speaker, its interval is pushed, then the previous speaker (if
\* another one, still in the map and speaking) is stopped
OnStartSpeaking(st, u, t) ==
  LET prev == st.currentSpeaker
      started ==
        [participants |->
           [st.participants EXCEPT ![u].isSpeaking = TRUE,
                                   ![u].speakingStartTime = t],
         currentSpeaker |-> u,
         speakingHistory |->
           Append(st.speakingHistory, [uuid |-> u, startTime |-> t, endTime |-> 0])]
  IN  IF prev # 0 /\ prev # u /\ started.participants[prev].present
         /\ started.participants[prev].isSpeaking
        THEN OnStopSpeaking(started, prev, t)
        ELSE started

\* addParticipant(participantData): a fresh record replaces any old one
AddParticipant(st, u) ==
  [st EXCEPT !.participants[u] =
     [present |-> TRUE, isSpeaking |-> FALSE, isMuted |-> FALSE,
      speakingStartTime |-> 0]]

\* the 'vad' key of an update: -1 stands for a missing key
VadValues == {-1, 0, 100}
\* the 'is_muted' key of an update
MutedValues == {"absent", "true", "false"}

\* updateParticipant(participantData): vad is the 'vad' key (100 means
\* speaking), muted the 'is_muted' key; either may be absent
UpdateParticipant(st, u, vad, muted, t) ==
  IF ~st.participants[u].present
    THEN AddParticipant(st, u)
    ELSE
      LET afterVad ==
            IF vad = -1 THEN st
            ELSE IF ~st.participants[u].isSpeaking /\ vad = 100
                   THEN OnStartSpeaking(st, u, t)
            ELSE IF st.participants[u].isSpeaking /\ vad # 100
                   THEN OnStopSpeaking(st, u, t)
            ELSE st
          withMute ==
            IF muted = "absent" THEN afterVad
            ELSE [afterVad EXCEPT !.participants[u].isMuted = (muted = "true")]
      IN  IF muted # "absent" /\ withMute.participants[u].isMuted
             /\ withMute.participants[u].isSpeaking
            THEN OnStopSpeaking(withMute, u, t)
            ELSE withMute

\* removeParticipant(participantData)
RemoveParticipant(st, u, t) ==
  IF st.participants[u].present
    THEN [OnStopSpeaking(st, u, t) EXCEPT !.participants[u] = NoParticipant]
    ELSE st

\* the forEach of updateStage over the entries i..Len(stage)
RECURSIVE StageEach(_, _, _, _)
StageEach(st, stage, i, t) ==
  IF i > Len(stage) THEN st
  ELSE LET e == stage[i]
           p == st.participants[e.uuid]
           next == IF ~p.present THEN st
                   ELSE IF e.vad > 0 /\ ~p.isSpeaking
                          THEN OnStartSpeaking(st, e.uuid, t)
                   ELSE IF ~(e.vad > 0) /\ p.isSpeaking
                          THEN OnStopSpeaking(st, e.uuid, t)
                   ELSE st
       IN  StageEach(next, stage, i + 1, t)

\* updateStage(stageData): entry 0 is the active speaker, then every entry
\* sets its participant's speaking state
UpdateStage(st, stage, t) ==
  IF Len(stage) = 0 THEN st
  ELSE LET a == stage[1]
           first == IF a.vad > 0 /\ st.participants[a.uuid].present
                       /\ ~st.participants[a.uuid].isSpeaking
                      THEN OnStartSpeaking(st, a.uuid, t)
                      ELSE st
       IN  StageEach(first, stage, 1, t)

\* the first entry of the history in the order given by the step (-1: from
\* the newest entry back, as the code scans) that covers the timestamp;
\* 0 if none does
RECURSIVE ScanHistory(_, _, _, _)
ScanHistory(h, i, step, timestamp) ==
  IF i < 1 \/ i > Len(h) THEN 0
  ELSE IF h[i].startTime <= timestamp
          /\ (h[i].endTime = 0 \/ h[i].endTime >= timestamp)
         THEN i
  ELSE ScanHistory(h, i + step, step, timestamp)

\* the history scan of getSpeakerAtTime, mutated: from the oldest entry on
MatchingEntryOldestFirst(st, timestamp) ==
  ScanHistory(st.speakingHistory, 1, 1, timestamp)

\* the for loop of getSpeakerAtTime: from the newest entry back
MatchingEntry(st, timestamp) ==
  ScanHistory(st.speakingHistory, Len(st.speakingHistory), -1, timestamp)

\* getSpeakerAtTime(timestamp): the entry found gives confidence 0.9, else
\* the current speaker (if still in the map) 0.5, else 'unknown' (uuid 0)
\* with 0; confidence is in tenths
GetSpeakerAtTime(st, timestamp) ==
  LET i == MatchingEntry(st, timestamp)
  IN  IF i # 0
        THEN [uuid |-> st.speakingHistory[i].uuid, confidence |-> 9]
      ELSE IF st.currentSpeaker # 0
              /\ st.participants[st.currentSpeaker].present
        THEN [uuid |-> st.currentSpeaker, confidence |-> 5]
      ELSE [uuid |-> 0, confidence |-> 0]

\* a handler ran: the tracker takes the state it computed
TrackerBecomes(st) ==
  /\ Len(st.speakingHistory) <= MaxHistory
  /\ participants' = st.participants
  /\ currentSpeaker' = st.currentSpeaker
  /\ speakingHistory' = st.speakingHistory
  /\ now' = now

\* participant_create
ParticipantCreate(u) ==
  /\ TrackerBecomes(AddParticipant(TrackerState, u))
  /\ UNCHANGED <<connVars, audioVars, timingVars, extVars>>

\* participant_update
ParticipantUpdate(u, vad, muted) ==
  /\ TrackerBecomes(UpdateParticipant(TrackerState, u, vad, muted, now))
  /\ UNCHANGED <<connVars, audioVars, timingVars, extVars>>

\* participant_delete
ParticipantDelete(u) ==
  /\ TrackerBecomes(RemoveParticipant(TrackerState, u, now))
  /\ UNCHANGED <<connVars, audioVars, timingVars, extVars>>

StageEntries == [uuid : Uuids, vad : {0, 100}]
Stages == UNION {[1..n -> StageEntries] : n \in 0..MaxStage}

\* stage
StageEvent(stage) ==
  /\ TrackerBecomes(UpdateStage(TrackerState, stage, now))
  /\ UNCHANGED <<connVars, audioVars, timingVars, extVars>>

\* reset(), mutated: only the history is cleared
ResetTrackerHistoryOnly(st) ==
  [st EXCEPT !.speakingHistory = <<>>]

\* reset(): participants, current speaker and history are cleared
ResetTracker(st) ==
  [participants |-> [u \in Uuids |-> NoParticipant],
   currentSpeaker |-> 0,
   speakingHistory |-> <<>>]

\* reset() is called
Reset ==
  /\ TrackerBecomes(ResetTracker(TrackerState))
  /\ UNCHANGED <<connVars, audioVars, timingVars, extVars>>

\* time passes between two events
Tick ==
  /\ now < MaxTime
  /\ now' = now + 1
  /\ UNCHANGED <<participants, currentSpeaker, speakingHistory>>
  /\ UNCHANGED <<connVars, audioVars, timingVars, extVars>>

TrackerNext ==
  \/ \E u \in Uuids : ParticipantCreate(u)
  \/ \E u \in Uuids, vad \in VadValues, muted \in MutedValues :
       ParticipantUpdate(u, vad, muted)
  \/ \E u \in Uuids : ParticipantDelete(u)
  \/ \E stage \in Stages : StageEvent(stage)
  \/ Reset
  \/ Tick

\* the speaker tracker
SpecTracker == Init /\ [][TrackerNext]_vars

\* ------------------------------------------------------------- claims: tracker
OpenIntervals == {i \in 1..Len(speakingHistory) : speakingHistory[i].endTime = 0}

\* C3: at most one interval of the speaking history is open: when B starts
\* speaking while A's interval is open, A's interval gets its end time
C3_AtMostOneOpenInterval == Cardinality(OpenIntervals) <= 1

\* C18: each participant has at most one open speaking interval
C18_OneOpenIntervalPerParticipant ==
  \A u \in Uuids :
     Cardinality({i \in OpenIntervals : speakingHistory[i].uuid = u}) <= 1

\* the timestamps a chunk may carry
Timestamps == 0..(MaxTime + 1)

\* C19: for a timestamp inside a closed interval [start, end) of the
\* history, getSpeakerAtTime returns that interval's participant with
\* confidence 0.9
C19_ClosedIntervalMatch ==
  \A i \in 1..Len(speakingHistory) :
     speakingHistory[i].endTime # 0 =>
        \A t \in Timestamps :
           (speakingHistory[i].startTime <= t /\ t < speakingHistory[i].endTime)
             => GetSpeakerAtTime(TrackerState, t) =
                  [uuid |-> speakingHistory[i].uuid, confidence |-> 9]

\* the newest entry is a closed interval of positive length and an older
\* interval of another participant, never closed, covers it too
C19_Witness ==
  /\ Len(speakingHistory) = 2
  /\ speakingHistory[1].endTime = 0
  /\ speakingHistory[2].endTime > speakingHistory[2].startTime
  /\ speakingHistory[1].uuid # speakingHistory[2].uuid
  /\ GetSpeakerAtTime(TrackerState, speakingHistory[2].startTime) =
       [uuid |-> speakingHistory[2].uuid, confidence |-> 9]

\* C20: with the current speaker's interval open, a timestamp after the
\* last closed interval gets the current speaker with confidence 0.5
C20_OpenSpeakerHalfConfidence ==
  \A t \in Timestamps :
     ( /\ currentSpeaker # 0
       /\ \E i \in OpenIntervals : speakingHistory[i].uuid = currentSpeaker
       /\ \A i \in 1..Len(speakingHistory) :
            speakingHistory[i].endTime # 0 => speakingHistory[i].endTime < t
       /\ t <= now )
     => GetSpeakerAtTime(TrackerState, t) =
          [uuid |-> currentSpeaker, confidence |-> 5]

\* C21: with no interval in the history, getSpeakerAtTime returns the
\* 'unknown' identity with confidence 0 for every timestamp
C21_EmptyHistoryUnknown ==
  speakingHistory = <<>> =>
     \A t \in Timestamps :
        GetSpeakerAtTime(TrackerState, t) = [uuid |-> 0, confidence |-> 0]

\* participants are in the meeting, time has passed and the history is
\* empty
C21_Witness ==
  /\ speakingHistory = <<>>
  /\ \A u \in Uuids : participants[u].present
  /\ now > 1

\* entry i of the history contains t, its interval taken half-open
Contains(i, t) ==
  /\ speakingHistory[i].startTime <= t
  /\ speakingHistory[i].endTime = 0 \/ t < speakingHistory[i].endTime

\* C22: the entry getSpeakerAtTime attributes a timestamp to contains it as
\* a half-open interval [start, end) and is the newest entry that does
C22_HalfOpenNewestFirst ==
  \A t \in Timestamps :
     LET i == MatchingEntry(TrackerState, t)
     IN  /\ i # 0 =>
              /\ Contains(i, t)
              /\ \A j \in (i + 1)..Len(speakingHistory) : ~Contains(j, t)
         /\ i = 0 => \A j \in 1..Len(speakingHistory) : ~Contains(j, t)

\* ------------------------------------------------------------- AudioBuffer
\* the 16-bit PCM values a frame may carry
SampleValues == {-32768, 32767}

\* new Int16Array(values): every value is wrapped to 16 bits, signed
ToInt16(x) == ((x + 32768) % 65536) - 32768
Int16Array(q) == [i \in 1..Len(q) |-> ToInt16(q[i])]

\* this.targetSamples = Math.floor(sampleRate * (targetDurationMs / 1000))
TargetSamples(sampleRate, targetDurationMs) ==
  (sampleRate * targetDurationMs) \div 1000

\* new AudioBuffer({sampleRate, targetDurationMs})
NewAudioBuffer(sampleRate, targetDurationMs) ==
  [present |-> TRUE, buffer |-> <<>>,
   targetSamples |-> TargetSamples(sampleRate, targetDurationMs),
   totalSamples |-> 0, chunksCreated |-> 0]

\* createChunk(), mutated: slice instead of splice, the buffer keeps the
\* samples of the chunk
CreateChunkSlice(b) ==
  [buf |-> [b EXCEPT !.chunksCreated = @ + 1],
   chunk |-> <<[samples |-> Int16Array(SubSeq(b.buffer, 1, b.targetSamples)),
                chunkNumber |-> b.chunksCreated + 1, isFinal |-> FALSE]>>]

\* createChunk(): splice the first targetSamples samples off the buffer;
\* the chunk is numbered by the incremented chunksCreated
CreateChunk(b) ==
  [buf |-> [b EXCEPT !.buffer = SubSeq(@, b.targetSamples + 1, Len(@)),
                     !.chunksCreated = @ + 1],
   chunk |-> <<[samples |-> Int16Array(SubSeq(b.buffer, 1, b.targetSamples)),
                chunkNumber |-> b.chunksCreated + 1, isFinal |-> FALSE]>>]

\* addSamples(samples): append, then one chunk at most is created; chunk is
\* the returned chunk as a sequence, empty for null
AddSamples(b, samples) ==
  LET added == [b EXCEPT !.buffer = @ \o samples,
                         !.totalSamples = @ + Len(samples)]
  IN  IF Len(added.buffer) >= added.targetSamples
        THEN CreateChunk(added)
        ELSE [buf |-> added, chunk |-> <<>>]

\* flush(), mutated: the buffer is not emptied
FlushKeepsBuffer(b) ==
  IF Len(b.buffer) > 0
    THEN [buf |-> b,
          chunk |-> <<[samples |-> Int16Array(b.buffer),
                       chunkNumber |-> b.chunksCreated + 1, isFinal |-> TRUE]>>]
    ELSE [buf |-> b, chunk |-> <<>>]

\* flush(): what is buffered leaves as a final chunk numbered
\* chunksCreated + 1; chunksCreated stays
Flush(b) ==
  IF Len(b.buffer) > 0
    THEN [buf |-> [b EXCEPT !.buffer = <<>>],
          chunk |-> <<[samples |-> Int16Array(b.buffer),
                       chunkNumber |-> b.chunksCreated + 1, isFinal |-> TRUE]>>]
    ELSE [buf |-> b, chunk |-> <<>>]

Frames == UNION {[1..n -> SampleValues] : n \in 0..MaxFrame}

\* the speaker attribution of processAudioData: with a tracker,
\* getSpeakerAtTime(chunk.timestamp) is called once for the chunk
AttributeSpeaker == IF participantTracker THEN 1 ELSE 0

\* the speaker attribution of stopTrack: the final chunk is handed on as
\* flush() returned it
AttributeFinal == 0

\* AudioProcessor.processAudioData(audioData): the track's buffer is made on
\* its first frame; a chunk addSamples returns gets its speaker and goes to
\* onChunkReady
ProcessAudioData(samples) ==
  /\ Len(fed) + Len(samples) <= MaxFed
  /\ LET b == IF audioBuffer.present
                THEN audioBuffer
                ELSE NewAudioBuffer(ModelSampleRate, ModelChunkDurationMs)
         r == AddSamples(b, samples)
     IN  /\ audioBuffer' = r.buf
         /\ chunks' = chunks \o r.chunk
         /\ speakerLookups' =
              speakerLookups \o
                [i \in 1..Len(r.chunk) |->
                   [tracker |-> participantTracker,
                    lookups |-> AttributeSpeaker]]
  /\ fed' = fed \o samples
  /\ flushed' = flushed
  /\ flushSeq' = flushSeq
  /\ participantTracker' = participantTracker
  /\ UNCHANGED <<connVars, trackerVars, timingVars, extVars>>

\* AudioBuffer.flush() called on the track's buffer
FlushBuffer ==
  /\ audioBuffer.present
  /\ LET r == Flush(audioBuffer)
     IN  /\ audioBuffer' = r.buf
         /\ chunks' = chunks \o r.chunk
  /\ flushed' = TRUE
  /\ flushSeq' = 1 - flushSeq
  /\ fed' = fed
  /\ UNCHANGED <<participantTracker, speakerLookups>>
  /\ UNCHANGED <<connVars, trackerVars, timingVars, extVars>>

\* AudioProcessor.stopTrack(trackId): flush, hand on the final chunk, delete
\* the buffer
StopTrack ==
  /\ audioBuffer.present
  /\ chunks' = chunks \o Flush(audioBuffer).chunk
  /\ speakerLookups' =
       speakerLookups \o
         [i \in 1..Len(Flush(audioBuffer).chunk) |->
            [tracker |-> participantTracker, lookups |-> AttributeFinal]]
  /\ audioBuffer' = NoBuffer
  /\ flushed' = TRUE
  /\ flushSeq' = 1 - flushSeq
  /\ fed' = fed
  /\ participantTracker' = participantTracker
  /\ UNCHANGED <<connVars, trackerVars, timingVars, extVars>>

\* setParticipantTracker(tracker), called once by index.js
SetParticipantTracker ==
  /\ ~participantTracker
  /\ participantTracker' = TRUE
  /\ UNCHANGED <<audioBuffer, fed, chunks, flushed, flushSeq, speakerLookups>>
  /\ UNCHANGED <<connVars, trackerVars, timingVars, extVars>>

AudioNext ==
  \/ SetParticipantTracker
  \/ \E samples \in Frames : ProcessAudioData(samples)
  \/ FlushBuffer
  \/ StopTrack

\* the audio capture pipeline of one track
SpecAudio == Init /\ [][AudioNext]_vars

\* ------------------------------------------------------------- claims: audio
RECURSIVE Flatten(_)
Flatten(cs) == IF cs = <<>> THEN <<>> ELSE Head(cs).samples \o Flatten(Tail(cs))

Buffered == IF audioBuffer.present THEN audioBuffer.buffer ELSE <<>>
ChunkSamples == TargetSamples(ModelSampleRate, ModelChunkDurationMs)

\* C4: after N * chunkSamples samples were fed (N >= 1, in frames of any
\* sizes, no flush), exactly N chunks were emitted, each of chunkSamples
\* samples, holding the input in order, with increasing sequence numbers
C4_ExactlyNChunks ==
  (~flushed /\ Len(fed) > 0 /\ Len(fed) % ChunkSamples = 0) =>
     /\ Len(chunks) = Len(fed) \div ChunkSamples
     /\ \A i \in 1..Len(chunks) : Len(chunks[i].samples) = ChunkSamples
     /\ Flatten(chunks) = fed
     /\ \A i \in 1..(Len(chunks) - 1) :
          chunks[i].chunkNumber < chunks[i + 1].chunkNumber

\* C5: the samples of the emitted chunks, in emission order, followed by
\* the buffered samples are the samples fed in
C5_NoSampleLostOrDuplicated ==
  Flatten(chunks) \o Buffered = fed

\* a full chunk and a short final chunk were emitted and samples fed since
\* are buffered
C5_Witness ==
  /\ Len(chunks) = 2
  /\ chunks[2].isFinal
  /\ Len(chunks[2].samples) = 1
  /\ Len(Buffered) = 1
  /\ Len(fed) = 4

\* the target chunk length of the track
ChunkTarget == TargetSamples(ModelSampleRate, ModelChunkDurationMs)

\* C16, the step: flush() (directly or in stopTrack) on a buffer holding K
\* samples, 0 < K < chunkSamples, hands on exactly one chunk, of length K
\* and marked isFinal, and leaves the buffer empty; on an empty buffer it
\* hands on nothing
C16_FlushStep ==
  (flushSeq' # flushSeq) =>
     LET K == Len(audioBuffer.buffer)
     IN  /\ (0 < K /\ K < audioBuffer.targetSamples) =>
              /\ Len(chunks') = Len(chunks) + 1
              /\ SubSeq(chunks', 1, Len(chunks)) = chunks
              /\ chunks'[Len(chunks')].isFinal
              /\ Len(chunks'[Len(chunks')].samples) = K
         /\ K = 0 => chunks' = chunks
         /\ audioBuffer'.present => audioBuffer'.buffer = <<>>

\* C16: flush() after a partial chunk yields exactly one final chunk of
\* the buffered length and no further chunk
C16_FlushPartial == [][C16_FlushStep]_vars

\* a partial buffer of one sample was flushed: one final chunk, the buffer
\* is empty and still there for a further flush
C16_Witness ==
  /\ audioBuffer.present
  /\ audioBuffer.buffer = <<>>
  /\ flushed
  /\ Len(chunks) = 1
  /\ chunks[1].isFinal
  /\ Len(chunks[1].samples) = 1
  /\ Len(fed) = 1

\* C17: every chunk handed on has the target length, except a final flush
\* chunk, which may be shorter and is never longer
C17_ChunkLengths ==
  \A i \in 1..Len(chunks) :
     IF chunks[i].isFinal
       THEN Len(chunks[i].samples) <= ChunkTarget
       ELSE Len(chunks[i].samples) = ChunkTarget

\* ------------------------------------------------------------- refresh timing
Min(a, b) == IF a <= b THEN a ELSE b

\* the token lifetimes (seconds) the bridge grants
Expiries == 1..MaxExpires

\* const refreshBuffer = Math.min(30, Math.floor(expiresInSeconds * 0.25))
RefreshBuffer(expiresInSeconds) == Min(30, expiresInSeconds \div 4)

\* const refreshInterval = (expiresInSeconds - refreshBuffer) * 1000
RefreshInterval(expiresInSeconds) ==
  (expiresInSeconds - RefreshBuffer(expiresInSeconds)) * 1000

\* connect(): requestToken returned a token expiring in expires seconds and
\* startTokenRefresh(expires) schedules the timer
TokenIssued(expires) ==
  /\ tokenExpiry = 0
  /\ tokenExpiry' = expires
  /\ refreshInterval' = RefreshInterval(expires)
  /\ UNCHANGED <<connVars, trackerVars, audioVars, extVars>>

\* the timer callback: refreshToken returned a token expiring in expires
\* seconds and startTokenRefresh(expires) schedules the next timer
TokenRefreshed(expires) ==
  /\ tokenExpiry # 0
  /\ tokenExpiry' = expires
  /\ refreshInterval' = RefreshInterval(expires)
  /\ UNCHANGED <<connVars, trackerVars, audioVars, extVars>>

TimingNext ==
  \/ \E expires \in Expiries : TokenIssued(expires)
  \/ \E expires \in Expiries : TokenRefreshed(expires)

\* the schedule of the token refresh timer
SpecTiming == Init /\ [][TimingNext]_vars

\* C15: the refresh timer fires expiresInSec - min(30, 0.25 x expiresInSec)
\* seconds after it is scheduled, strictly before the token expires (first
\* schedule and every reschedule); in milliseconds
C15_RefreshBeforeExpiry ==
  tokenExpiry # 0 =>
     /\ refreshInterval = 1000 * tokenExpiry - Min(30000, 250 * tokenExpiry)
     /\ refreshInterval < 1000 * tokenExpiry

\* ------------------------------------------------------------- AudioResampler
\* The ratios of the rates below are 1/3, 1/2, 2/3, 3/2, 2 and 3.  All but
\* 1/3 are exact doubles; the double nearest 1/3 is below 1/3 by one part in
\* 2^54, so for the array lengths considered here Math.floor of a quotient or
\* product with it equals the floor of the exact rational, and the integer
\* arithmetic below computes what the code computes.
Rates == {16000, 24000, 48000}

\* the arrays of at most n samples
SampleArrays(n) == UNION {[1..k -> SampleValues] : k \in 0..n}

\* Math.round(x / 3) for an integer x: the nearest integer, halves upwards
RoundThirds(x) == (2 * x + 3) \div 6

\* samples16k[i] = samples48k[i * ratio], ratio 3, a last sample variant
Downsample48to16Last(samples48k) ==
  [i \in 1..(Len(samples48k) \div 3) |-> samples48k[(i - 1) * 3 + 3]]

\* downsample48to16: outputLength = Math.floor(samples48k.length / 3),
\* samples16k[i] = samples48k[i * 3] (indices from 0 in the code, from 1 here)
Downsample48to16(samples48k) ==
  [i \in 1..(Len(samples48k) \div 3) |-> samples48k[(i - 1) * 3 + 1]]

\* downsample48to24: the same with ratio 2
Downsample48to24(samples48k) ==
  [i \in 1..(Len(samples48k) \div 2) |-> samples48k[(i - 1) * 2 + 1]]

\* the 16000 -> 24000 branch: outputLength = Math.floor(samples.length * 1.5);
\* sourceIndex = i / 1.5 has integer part 2i div 3 and fraction (2i mod 3)/3
Upsample16to24(samples) ==
  [j \in 1..((Len(samples) * 3) \div 2) |->
     LET i == j - 1
         index == (2 * i) \div 3
         thirds == (2 * i) % 3
     IN  IF index < Len(samples) - 1
         THEN RoundThirds(samples[index + 1] * (3 - thirds)
                          + samples[index + 2] * thirds)
         ELSE samples[Len(samples)]]

\* the fallback: ratio = fromRate / toRate,
\* outputLength = Math.floor(samples.length / ratio),
\* output[i] = samples[Math.floor(i * ratio)]
ResampleFallback(samples, fromRate, toRate) ==
  [j \in 1..((Len(samples) * toRate) \div fromRate) |->
     samples[(((j - 1) * fromRate) \div toRate) + 1]]

ResampleAudio(samples, fromRate, toRate) ==
  IF fromRate = toRate THEN samples
  ELSE IF fromRate = 48000 /\ toRate = 16000 THEN Downsample48to16(samples)
  ELSE IF fromRate = 48000 /\ toRate = 24000 THEN Downsample48to24(samples)
  ELSE IF fromRate = 16000 /\ toRate = 24000 THEN Upsample16to24(samples)
  ELSE ResampleFallback(samples, fromRate, toRate)

\* everything but the resampler's variables
OutsideResample ==
  <<connVars, trackerVars, audioVars, timingVars, transcriptVars, adapterVars,
    collabVars, mediaVars, orderVars, serverVars>>

\* a caller resamples an array and resamples the result back; the function
\* keeps nothing between calls, so one call per behaviour covers them all
Resample(samples, fromRate, toRate) ==
  /\ rsSamples = <<>>
  /\ rsSamples' = samples
  /\ rsFrom' = fromRate
  /\ rsTo' = toRate
  /\ rsOut' = ResampleAudio(samples, fromRate, toRate)
  /\ rsBack' = ResampleAudio(ResampleAudio(samples, fromRate, toRate),
                             toRate, fromRate)
  /\ UNCHANGED OutsideResample

ResampleNext ==
  \E samples \in SampleArrays(MaxSamples), fromRate \in Rates, toRate \in Rates :
     Resample(samples, fromRate, toRate)

SpecResample == Init /\ [][ResampleNext]_vars

\* ------------------------------------------------------------- claims: resampler
Abs(x) == IF x < 0 THEN -x ELSE x

\* C28: resampling N samples from rate A to rate B and the result back from
\* B to A gives N samples, give or take one, for the pairs 48000/16000,
\* 48000/24000 and 16000/24000 in either direction
C28_RoundTripWithinOne ==
  Abs(Len(rsBack) - Len(rsSamples)) <= 1

\* C29: downsampling N samples from 48000 to 16000 gives floor(N/3) samples,
\* and output sample i is input sample 3i (counting from 0)
C29_Decimation ==
  (rsFrom = 48000 /\ rsTo = 16000) =>
     /\ Len(rsOut) = Len(rsSamples) \div 3
     /\ \A i \in 0..(Len(rsOut) - 1) : rsOut[i + 1] = rsSamples[3 * i + 1]

\* C29: a 48000 -> 16000 call whose input is not a whole number of triples
\* and whose output's second sample differs from its first
C29_Witness ==
  /\ rsFrom = 48000 /\ rsTo = 16000
  /\ Len(rsSamples) % 3 # 0
  /\ Len(rsOut) >= 2
  /\ rsOut[1] # rsOut[2]

\* ------------------------------------------------------------- TranscriptManager
\* Item ids are 1..MaxItems; 0 is null (or no itemId given), Undefined is a
\* previousItemId that was not given.  The text of item i is the word i, an
\* utterance without an item id has the word NoIdText.
ItemIds == 1..MaxItems
Undefined == -1
NoIdText == MaxItems + 1

\* Map.set(key, value): a new key goes to the end of the iteration order, an
\* existing key keeps its place
MapSet(map, key, value) ==
  IF \E k \in 1..Len(map) : map[k].itemId = key
  THEN [k \in 1..Len(map) |-> IF map[k].itemId = key THEN value ELSE map[k]]
  ELSE Append(map, value)

\* the first entry, in iteration order, whose previousItemId is previous;
\* 0 if none
FirstItem(map, previous) ==
  LET hits == {k \in 1..Len(map) : map[k].previousItemId = previous}
  IN  IF hits = {} THEN 0
      ELSE map[CHOOSE k \in hits : \A j \in hits : k <= j].itemId

\* smartJoin: blank segments are skipped, the others are joined in order
SmartJoin(segments) == SelectSeq(segments, LAMBDA text : text # 0)

\* the search for the next item, lines 107-113: currentId is set to null
\* before the scan compares previousItemId with it
NextItem(map, currentId) ==
  FirstItem(map, 0)

\* the while loop of getOrderedTranscript, lines 101-115
RECURSIVE FollowChain(_, _, _, _)
FollowChain(map, currentId, visited, ordered) ==
  IF currentId = 0 \/ currentId \in visited THEN ordered
  ELSE FollowChain(map, NextItem(map, currentId), visited \cup {currentId},
                   Append(ordered, currentId))

GetOrderedTranscript(map, clean) ==
  IF Len(map) = 0 THEN SmartJoin(clean)
  ELSE SmartJoin(FollowChain(map, FirstItem(map, 0), {}, <<>>))

\* everything but the transcript manager's variables
OutsideTranscript ==
  <<connVars, trackerVars, audioVars, timingVars, resampleVars, adapterVars,
    collabVars, mediaVars, orderVars, serverVars>>

\* addTranscription(text, {itemId, previousItemId})
AddTranscription(itemId, previousItemId) ==
  /\ Len(cleanTranscript) < MaxAdds
  /\ cleanTranscript' =
       Append(cleanTranscript, IF itemId = 0 THEN NoIdText ELSE itemId)
  /\ orderedItems' =
       IF itemId # 0 /\ previousItemId # Undefined
       THEN MapSet(orderedItems, itemId,
                   [itemId |-> itemId, previousItemId |-> previousItemId])
       ELSE orderedItems
  /\ UNCHANGED OutsideTranscript

TranscriptNext ==
  \/ \E itemId \in ItemIds, previousItemId \in {Undefined, 0} \cup ItemIds :
        AddTranscription(itemId, previousItemId)
  \/ AddTranscription(0, Undefined)

SpecTranscript == Init /\ [][TranscriptNext]_vars

\* ------------------------------------------------------------- claims: transcript
\* the item that names id as its predecessor; 0 if none
Successor(map, id) == FirstItem(map, id)

\* the texts of a chain from its head on, following previousItemId
RECURSIVE ChainFrom(_, _, _)
ChainFrom(map, id, seen) ==
  IF id = 0 \/ id \in seen THEN <<>>
  ELSE <<id>> \o ChainFrom(map, Successor(map, id), seen \cup {id})

\* the stored items form one chain: one head, and every item is on the
\* chain that starts there
IsChain(map) ==
  /\ Cardinality({k \in 1..Len(map) : map[k].previousItemId = 0}) = 1
  /\ Len(ChainFrom(map, Successor(map, 0), {})) = Len(map)

\* C27: for final items that form a chain, added in any order,
\* getOrderedTranscript returns the text of every item in chain order
C27_ChainOrder ==
  IsChain(orderedItems) =>
     GetOrderedTranscript(orderedItems, cleanTranscript)
       = ChainFrom(orderedItems, Successor(orderedItems, 0), {})

\* ------------------------------------------------------------- claims: orchestrator
IsPrefix(a, b) == Len(a) <= Len(b) /\ \A i \in 1..Len(a) : a[i] = b[i]
InSeq(x, q) == \E i \in 1..Len(q) : q[i] = x
SentQueued == SelectSeq(sent, LAMBDA e : InSeq(e[1], queuedLog))

\* C1: no candidate is sent before callUuid is assigned; the candidates
\* queued before it are sent in generation order, each at most once while
\* the flush runs and each exactly once when it is over
C1_QueuedCandidatesFlushedInOrder ==
  /\ \A i \in 1..Len(sent) : sent[i][2] # 0
  /\ IsPrefix([i \in 1..Len(SentQueued) |-> SentQueued[i][1]], queuedLog)
  /\ (callUuid # 0 /\ connPc # "flush") => Len(SentQueued) = Len(queuedLog)

\* two candidates were queued and flushed, a third was sent directly
C1_Witness ==
  /\ callUuid # 0
  /\ connPc # "flush"
  /\ Len(queuedLog) = 2
  /\ Len(sent) = 3

\* C2: the pending queue is non-empty only while callUuid is unset
C2_PendingOnlyWithoutCallId ==
  callUuid # 0 => pendingIceCandidates = <<>>

\* C6, the counts: every teardown step was performed once per disconnect()
\* call that found the session running, and a session is torn down at most
\* once per activation
C6_TeardownCounts ==
  LET inGrace == Cardinality({d \in DiscCallers : dpc[d] = "grace"})
      inCall == Cardinality({d \in DiscCallers : dpc[d] = "disconnectCall"})
  IN  /\ obs.passes <= obs.activations
      /\ isRunning => obs.passes < obs.activations
      /\ obs.stopCount = obs.passes
      /\ obs.closeCount = obs.passes
      /\ obs.dcallCount = obs.passes - inGrace
      /\ obs.relCount = obs.passes - inGrace - inCall

\* C6, the second call: a disconnect() call on a session that is not
\* running changes no field, timer or request; a poll loop that made the
\* call goes on with its batch
C6_SecondCallNoOp ==
  (obs'.callSeq # obs.callSeq /\ ~isRunning) =>
     /\ UNCHANGED progVars
     /\ obs' = [obs EXCEPT !.callSeq = 1 - @, !.lastDisconnect = "noop"]
     /\ \A l \in LoopIds : loops'[l] # loops[l] => loops[l].pc = "handling"

\* C6: disconnect() is idempotent: teardown once per running session, any
\* further call (in succession, overlapping, or from a 'disconnect' event)
\* returns without side effects
C6_DisconnectIdempotent ==
  []C6_TeardownCounts /\ [][C6_SecondCallNoOp]_vars

\* a disconnect() call returned at once while the teardown of an earlier
\* call was still awaiting the bridge
C6_Witness ==
  /\ obs.lastDisconnect = "noop"
  /\ obs.passes = 1
  /\ \E d \in DiscCallers : dpc[d] = "releaseToken"

\* C7: from the successful end of connect() until disconnect() begins a poll
\* loop is alive: a request in flight, a batch being handled, or the next
\* poll scheduled
C7_PollLoopRunsWhileActive ==
  isRunning => \E l \in LoopIds : loops[l].pc # "none"

C9_OneRefreshTimer == Cardinality(refreshTimers) <= 1

\* a timer is scheduled after a second connect() on a running session,
\* while a refresh request of the first timer is still in flight
C9_Witness ==
  /\ Cardinality(refreshTimers) = 1
  /\ refreshInflight = 1
  /\ connects = 2

\* disconnect() has begun and no connect() has activated the session since
DisconnectBegun == ~isRunning /\ obs.passes > 0

\* C10, the step: while disconnect() has begun, no step issues a getEvents
\* request or a refreshToken request
C10_NoNewRequest ==
  (DisconnectBegun /\ ~isRunning') =>
     /\ \A l \in LoopIds : loops'[l].pc = "polling" => loops[l].pc = "polling"
     /\ refreshInflight' <= refreshInflight

\* C10: once disconnect() has begun no poll or refresh request is issued,
\* and no error of a poll or refresh callback escapes it
C10_QuietAfterDisconnect ==
  [][C10_NoNewRequest]_vars /\ [](~obs.uncaught)

\* a refresh that was in flight when disconnect() began has resolved and
\* scheduled a timer, while a poll request is still in flight
C10_Witness ==
  /\ DisconnectBegun
  /\ refreshTimers # {}
  /\ \E l \in LoopIds : loops[l].pc = "polling"

\* the teardown steps of disconnect() in the order the claim gives
TeardownOrder ==
  <<"stopTokenRefresh", "stopPolling", "closeMedia", "disconnectCall",
    "releaseToken">>

C12_403Step ==
  \A d \in DiscCallers :
     /\ (dpc[d] = "disconnectCall" /\ dpc'[d] # "disconnectCall"
           /\ obs'.lastStatus = 403) =>
          /\ obs'.relCount = obs.relCount + 1
          /\ dpc'[d] = IF token THEN "releaseToken" ELSE "idle"
     /\ (dpc[d] = "releaseToken" /\ dpc'[d] # "releaseToken"
           /\ obs'.lastStatus = 403) =>
          /\ ~token'
          /\ dpc'[d] = "idle"

\* C12: a 403 on disconnectCall or releaseToken is successful cleanup: no
\* error reaches the caller of disconnect(), releaseToken is still
\* attempted after a 403 on disconnectCall, and the token is cleared after
\* the release attempt
C12_403IsSuccessfulCleanup ==
  [][C12_403Step]_vars /\ [](~obs.disconnectThrew)

\* disconnect() returned after the bridge answered 403 to release_token
C12_Witness ==
  /\ obs.lastStatus = 403
  /\ obs.relCount = 1
  /\ \A d \in DiscCallers : dpc[d] = "idle"
  /\ ~token
  /\ obs.passes = 1

\* C13: a token refresh failure on an active session is fatal: the step
\* that handles the failure leaves the session not active
C13_RefreshFailureIsFatal ==
  [][(obs'.refreshFailSeq # obs.refreshFailSeq /\ isRunning) => ~isRunning']_vars

\* C14, the step: an error caught in a poll iteration of a running session
\* leaves the session running, escapes to nobody, and the loop that caught
\* it has its next poll scheduled
C14_PollFailureStep ==
  (obs'.pollFailSeq # obs.pollFailSeq /\ isRunning) =>
     /\ isRunning'
     /\ ~obs'.uncaught
     /\ \E l \in LoopIds :
          /\ loops[l].pc \in {"polling", "handling", "offer", "ack"}
          /\ loops'[l] = [pc |-> "timer", left |-> 0]
          /\ eventPollTimeout' = l

\* C14: a poll iteration that times out or fails (the request, or an event
\* handler) is isolated to that iteration
C14_PollFailureIsolated == [][C14_PollFailureStep]_vars

\* a poll iteration failed on a running session and the next poll is
\* scheduled
C14_Witness ==
  /\ obs.pollFailSeq = 1
  /\ isRunning
  /\ \E l \in LoopIds : loops[l].pc = "timer" /\ eventPollTimeout = l

\* ------------------------------------------------------------- transcription adapters
\* Three adapter classes share the provider contract:
\*   "OpenAI"          transcription/OpenAITranscriptionService.js
\*   "OpenAIProvider"  the OpenAITranscriptionService built on
\*                     BaseTranscriptionProvider (buffered sends)
\*   "Gemini"          transcription/providers/GeminiLiveProvider.js
\* adapter is "none" until one of them is constructed.  Of the messages an
\* adapter sends, the audio (input_audio_buffer.append, sendRealtimeInput)
\* and the commits (input_audio_buffer.commit) are recorded; of the session
\* configuration initializeSession sends after 'open' only the count is.
Adapters == {"OpenAI", "OpenAIProvider", "Gemini"}

\* this.bufferSize: 24000 * 0.1 = 2400 and 16000 * 0.1 = 1600 samples, here
\* 3 and 2 buffer units; the OpenAI class sends every chunk at once
BufferSize(a) ==
  IF a = "OpenAIProvider" THEN 3 * ModelBufferUnit
  ELSE IF a = "Gemini" THEN 2 * ModelBufferUnit
  ELSE 0

\* the rate the provider requires
RequiredRate(a) == IF a = "Gemini" THEN 16000 ELSE 24000

\* the samples of the c-th chunk handed to processAudioChunk
ChunkSamplesOf(c, len) == [i \in 1..len |-> 10 * c + i]

\* the resampling each class applies to audioData.samples
AdapterResample(a, samples, sampleRate) ==
  IF a = "OpenAI"
  THEN IF sampleRate \in {48000, 16000}
       THEN ResampleAudio(samples, sampleRate, 24000)
       ELSE samples
  ELSE IF sampleRate # RequiredRate(a)
       THEN ResampleAudio(samples, sampleRate, RequiredRate(a))
       ELSE samples

\* combinedSamples: the buffered chunks one after the other
RECURSIVE CombineChunks(_)
CombineChunks(buffer) ==
  IF buffer = <<>> THEN <<>> ELSE Head(buffer) \o CombineChunks(Tail(buffer))

\* everything but the adapter's variables
OutsideAdapter ==
  <<connVars, trackerVars, audioVars, timingVars, resampleVars, transcriptVars,
    collabVars, mediaVars, orderVars, serverVars>>

\* new OpenAITranscriptionService(config) / new GeminiLiveProvider(config);
\* vad is config.vadThreshold and vadSilenceDuration both non-zero (vadConfig
\* is not null), resp. config.vadEnabled !== false
Construct(a, vad) ==
  /\ adapter = "none"
  /\ a = "Gemini" => ~vad
  /\ adapter' = a
  /\ vadOn' = vad
  /\ UNCHANGED <<isConnected, ws, adapterBuffer, chunkCalls, received,
                 sentSamples, sends, commits, statsErrors, errorEvents,
                 lastError>>
  /\ UNCHANGED sessionVars
  /\ UNCHANGED OutsideAdapter

\* the 'open' handler: the OpenAI and Gemini classes call
\* initializeSession() at once, the OpenAIProvider class defers it by
\* setTimeout(() => this.initializeSession(), 100)
OnOpen(a) ==
  IF a = "OpenAIProvider"
  THEN /\ sessionTimers' = sessionTimers + 1
       /\ sessionConfigs' = 0
  ELSE /\ sessionTimers' = sessionTimers
       /\ sessionConfigs' = 1

\* connect() and the socket's 'open' event
AdapterConnect ==
  /\ adapter # "none"
  /\ ~isConnected
  /\ sessionTimers < MaxSessionTimers
  /\ ws' = "open"
  /\ isConnected' = TRUE
  /\ OnOpen(adapter)
  /\ UNCHANGED <<adapter, vadOn, adapterBuffer, chunkCalls, received,
                 sentSamples, sends, commits, statsErrors, errorEvents,
                 lastError, initThrew>>
  /\ UNCHANGED OutsideAdapter

\* the deferred initializeSession() of the OpenAIProvider class runs:
\* this.ws.send(sessionConfig) throws a TypeError when the 'close' handler
\* has set this.ws = null; on a socket that is closing no message leaves
InitializeSession ==
  /\ sessionTimers > 0
  /\ sessionTimers' = sessionTimers - 1
  /\ sessionConfigs' = IF ws = "open" THEN sessionConfigs + 1 ELSE sessionConfigs
  /\ initThrew' = (initThrew \/ ws = "closed")
  /\ UNCHANGED <<adapter, vadOn, isConnected, ws, adapterBuffer, chunkCalls,
                 received, sentSamples, sends, commits, statsErrors,
                 errorEvents, lastError>>
  /\ UNCHANGED OutsideAdapter

\* processAudioChunk({samples, sampleRate}); elapsed is
\* (Date.now() - this.lastSendTime) > 100; threw is ws.send throwing on a
\* socket that is closing (the OpenAIProvider class calls ws.send unguarded,
\* the other two drop the message)
ProcessAudioChunk(len, sampleRate, elapsed, threw) ==
  /\ adapter # "none"
  /\ isConnected
  /\ chunkCalls < MaxChunkCalls
  /\ chunkCalls' = chunkCalls + 1
  /\ LET samples ==
           AdapterResample(adapter, ChunkSamplesOf(chunkCalls + 1, len), sampleRate)
         buffered == Append(adapterBuffer, samples)
         total == Len(CombineChunks(buffered))
     IN  /\ received' = received \o samples
         /\ IF adapter = "OpenAI"
            THEN /\ adapterBuffer' = adapterBuffer
                 /\ IF ws = "open"
                    THEN sentSamples' = sentSamples \o samples /\ sends' = sends + 1
                    ELSE UNCHANGED <<sentSamples, sends>>
            ELSE IF \/ total >= BufferSize(adapter)
                    \/ adapter = "Gemini" /\ elapsed
            THEN IF ws = "open"
                 THEN /\ sentSamples' = sentSamples \o CombineChunks(buffered)
                      /\ sends' = sends + 1
                      /\ adapterBuffer' = <<>>
                 ELSE /\ UNCHANGED <<sentSamples, sends>>
                      /\ adapterBuffer' =
                           IF adapter = "OpenAIProvider" /\ threw
                           THEN buffered ELSE <<>>
            ELSE /\ UNCHANGED <<sentSamples, sends>>
                 /\ adapterBuffer' = buffered
  /\ UNCHANGED <<adapter, vadOn, isConnected, ws, commits, statsErrors,
                 errorEvents, lastError>>
  /\ UNCHANGED sessionVars
  /\ UNCHANGED OutsideAdapter

\* commitAudioBuffer() of the OpenAI class: nothing is sent when vadConfig is set
CommitOpenAI == IF vadOn THEN commits ELSE commits + 1

\* commitAudioBuffer() of the OpenAIProvider class
CommitOpenAIProvider == commits + 1

\* commitAudioBuffer(); the Gemini class has no such method.  On a socket
\* that is closing no message leaves, whichever class sends it.
CommitAudioBuffer ==
  /\ adapter \in {"OpenAI", "OpenAIProvider"}
  /\ isConnected
  /\ ws = "open"
  /\ commits < MaxCommits
  /\ commits' = IF adapter = "OpenAI" THEN CommitOpenAI ELSE CommitOpenAIProvider
  /\ UNCHANGED <<adapter, vadOn, isConnected, ws, adapterBuffer, chunkCalls,
                 received, sentSamples, sends, statsErrors, errorEvents,
                 lastError>>
  /\ UNCHANGED sessionVars
  /\ UNCHANGED OutsideAdapter

\* the 'error' case of the OpenAI class: buffer_too_small is ignored when
\* vadConfig is set
SuppressedOpenAI(code) == code = "buffer_too_small" /\ vadOn

\* the 'error' case of the OpenAIProvider and Gemini classes
SuppressedOther(code) == FALSE

\* handleMessage of a provider 'error' message with error.code = code
ProviderError(code) ==
  /\ adapter # "none"
  /\ ws # "closed"
  /\ lastError.seq < MaxErrors
  /\ lastError' = [seq |-> lastError.seq + 1, code |-> code]
  /\ IF (IF adapter = "OpenAI" THEN SuppressedOpenAI(code)
         ELSE SuppressedOther(code))
     THEN UNCHANGED <<statsErrors, errorEvents>>
     ELSE /\ statsErrors' = statsErrors + 1
          /\ errorEvents' = errorEvents + 1
  /\ UNCHANGED <<adapter, vadOn, isConnected, ws, adapterBuffer, chunkCalls,
                 received, sentSamples, sends, commits>>
  /\ UNCHANGED sessionVars
  /\ UNCHANGED OutsideAdapter

\* disconnect(): the OpenAIProvider class first sends what is buffered and
\* a commit; all of them close the socket
AdapterDisconnect(threw) ==
  /\ adapter # "none"
  /\ isConnected
  /\ IF adapter = "OpenAIProvider" /\ adapterBuffer # <<>>
     THEN IF ws = "open"
          THEN /\ sentSamples' = sentSamples \o CombineChunks(adapterBuffer)
               /\ sends' = sends + 1
               /\ commits' = CommitOpenAIProvider
               /\ adapterBuffer' = <<>>
               /\ ws' = "closing"
          ELSE /\ UNCHANGED <<sentSamples, sends, commits, ws>>
               /\ adapterBuffer' = IF threw THEN adapterBuffer ELSE <<>>
     ELSE /\ UNCHANGED <<sentSamples, sends, commits, adapterBuffer>>
          /\ ws' = "closing"
  /\ UNCHANGED <<adapter, vadOn, isConnected, chunkCalls, received,
                 statsErrors, errorEvents, lastError>>
  /\ UNCHANGED sessionVars
  /\ UNCHANGED OutsideAdapter

\* the socket's 'close' event
WsClose ==
  /\ ws # "closed"
  /\ ws' = "closed"
  /\ isConnected' = FALSE
  /\ UNCHANGED <<adapter, vadOn, adapterBuffer, chunkCalls, received,
                 sentSamples, sends, commits, statsErrors, errorEvents,
                 lastError>>
  /\ UNCHANGED sessionVars
  /\ UNCHANGED OutsideAdapter

AdapterNext ==
  \/ \E a \in Adapters, vad \in BOOLEAN : Construct(a, vad)
  \/ AdapterConnect
  \/ InitializeSession
  \/ \E len \in 0..MaxChunkLen, sampleRate \in Rates, elapsed, threw \in BOOLEAN :
        ProcessAudioChunk(len, sampleRate, elapsed, threw)
  \/ CommitAudioBuffer
  \/ \E code \in {"buffer_too_small", "invalid_request_error"} : ProviderError(code)
  \/ \E threw \in BOOLEAN : AdapterDisconnect(threw)
  \/ WsClose

SpecAdapter == Init /\ [][AdapterNext]_vars

\* ------------------------------------------------------------- claims: adapters
\* C23: with provider-side voice-activity detection enabled an adapter never
\* sends an input_audio_buffer.commit message, whatever sequence of
\* commitAudioBuffer, processAudioChunk and disconnect calls it gets
C23_NoCommitUnderVad ==
  vadOn => commits = 0

\* C24: a provider error with code buffer_too_small received while provider
\* VAD is active emits no error event and leaves the error counter alone;
\* any other provider error emits exactly one error event and leaves the
\* adapter connected
C24_ErrorStep ==
  lastError'.seq # lastError.seq =>
     IF lastError'.code = "buffer_too_small" /\ vadOn
     THEN errorEvents' = errorEvents /\ statsErrors' = statsErrors
     ELSE errorEvents' = errorEvents + 1 /\ isConnected' = isConnected

C24_BufferTooSmallSuppressed == [][C24_ErrorStep]_vars

\* C30: a processAudioChunk call transmits only when the buffered total,
\* the new chunk included, has reached the minimum send size; what it
\* transmits is everything buffered, in arrival order, and the buffer is
\* empty afterwards
C30_SendStep ==
  (chunkCalls' # chunkCalls /\ sends' # sends) =>
     LET pushed == SubSeq(received', Len(received) + 1, Len(received'))
         payload == CombineChunks(adapterBuffer) \o pushed
     IN  /\ Len(payload) >= BufferSize(adapter)
         /\ sentSamples' = sentSamples \o payload
         /\ adapterBuffer' = <<>>

C30_BufferedSend == [][C30_SendStep]_vars

\* ------------------------------------------------------------- claims: participant events
\* C25: every participant_create, participant_update, participant_delete
\* and stage event a poll returns is handed by the orchestrator to the
\* participant-event collaborator, in the order received
C25_ForwardStep ==
  \A l \in LoopIds, kind \in ParticipantEvents :
     HandleOtherEvent(l, kind) => forwarded' = Append(forwarded, kind)

C25_EventsForwarded == [][C25_ForwardStep]_vars

\* ------------------------------------------------------------- WebRTCHandler
\* The media session handler alone.  Peer connections are numbered in the
\* order createPeerConnection makes them; the offer has one receive-only
\* audio transceiver, so connection p has one inbound audio track, track p.
\* A connection that was replaced without disconnect() keeps its handlers,
\* and they act on the handler object's current fields; its own ICE state
\* is read by nobody and is kept as "replaced".
PcIds == 1..MaxPcs
IceConnected == {"connected", "completed"}

\* the iceConnectionState changes of the media engine
IceSuccessors(state) ==
  CASE state = "new" -> {"checking"}
    [] state = "checking" -> {"connected", "completed", "failed"}
    [] state = "connected" -> {"completed", "disconnected"}
    [] state = "completed" -> {"disconnected"}
    [] state = "disconnected" -> {"connected", "completed", "checking", "failed"}
    [] state = "failed" -> {"checking"}
    [] OTHER -> {}

\* isConnected(): this.pc?.iceConnectionState is connected or completed
IsConnected(p, states) == p # 0 /\ states[p] \in IceConnected

\* attachAudioSink(track): a sink is made for the track and kept in
\* this.audioSinks; via and the state of this.pc are kept for the record
AttachAudioSink(track, via, p, states) ==
  /\ audioSinks' = audioSinks \cup {track}
  /\ attachLog' = Append(attachLog,
       [track |-> track, via |-> via,
        state |-> IF p = 0 THEN "none" ELSE states[p]])

\* pc.ontrack, mutated: the sink is attached at once
TrackHandlerAtOnce(track) ==
  /\ AttachAudioSink(track, "ontrack", pc, iceConnectionState)
  /\ pendingAudioTrack' = pendingAudioTrack

\* pc.ontrack for an audio track
TrackHandler(track) ==
  IF IsConnected(pc, iceConnectionState)
  THEN /\ AttachAudioSink(track, "ontrack", pc, iceConnectionState)
       /\ pendingAudioTrack' = pendingAudioTrack
  ELSE /\ pendingAudioTrack' = track
       /\ UNCHANGED <<audioSinks, attachLog>>

\* everything but the media handler's variables
OutsideMedia ==
  <<connVars, trackerVars, audioVars, timingVars, resampleVars, transcriptVars,
    adapterVars, collabVars, orderVars, serverVars>>

\* createPeerConnection(): a new connection, its handlers installed
CreatePeerConnection ==
  /\ pcCount < MaxPcs
  /\ pcCount' = pcCount + 1
  /\ pc' = pcCount + 1
  /\ livePcs' = livePcs \cup {pcCount + 1}
  /\ iceConnectionState' =
       [p \in PcIds |-> IF p = pcCount + 1 THEN "new"
                        ELSE IF p = pc THEN "replaced"
                        ELSE iceConnectionState[p]]
  /\ UNCHANGED <<tracked, pendingAudioTrack, audioSinks, attachLog, delivered>>
  /\ UNCHANGED OutsideMedia

\* the engine delivers the inbound audio track of connection p
OnTrack(p) ==
  /\ p \in livePcs
  /\ p \notin tracked
  /\ tracked' = tracked \cup {p}
  /\ TrackHandler(p)
  /\ UNCHANGED <<pc, pcCount, livePcs, iceConnectionState, delivered>>
  /\ UNCHANGED OutsideMedia

\* connection p changes its ICE state and its oniceconnectionstatechange
\* runs: the handler reads the state of this.pc
IceStateChange(p, state) ==
  /\ p \in livePcs
  /\ IF p = pc
     THEN /\ state \in IceSuccessors(iceConnectionState[p])
          /\ iceConnectionState' = [iceConnectionState EXCEPT ![p] = state]
     ELSE iceConnectionState' = iceConnectionState
  /\ IF IsConnected(pc, iceConnectionState') /\ pendingAudioTrack # 0
     THEN /\ AttachAudioSink(pendingAudioTrack, "pending", pc, iceConnectionState')
          /\ pendingAudioTrack' = 0
     ELSE UNCHANGED <<pendingAudioTrack, audioSinks, attachLog>>
  /\ UNCHANGED <<pc, pcCount, livePcs, tracked, delivered>>
  /\ UNCHANGED OutsideMedia

\* audioSink.ondata: a frame of an attached track goes to onAudioData
AudioFrame(track) ==
  /\ track \in audioSinks
  /\ delivered' = TRUE
  /\ UNCHANGED <<pc, pcCount, livePcs, iceConnectionState, tracked,
                 pendingAudioTrack, audioSinks, attachLog>>
  /\ UNCHANGED OutsideMedia

\* track.onended: cleanup(track.id)
TrackEnded(track) ==
  /\ track \in audioSinks
  /\ audioSinks' = audioSinks \ {track}
  /\ UNCHANGED <<pc, pcCount, livePcs, iceConnectionState, tracked,
                 pendingAudioTrack, attachLog, delivered>>
  /\ UNCHANGED OutsideMedia

\* disconnect(): every sink is stopped, the handlers of this.pc are removed,
\* the connection is closed and this.pc becomes null
MediaDisconnect ==
  /\ audioSinks' = {}
  /\ IF pc # 0
     THEN /\ livePcs' = livePcs \ {pc}
          /\ iceConnectionState' = [iceConnectionState EXCEPT ![pc] = "closed"]
     ELSE UNCHANGED <<livePcs, iceConnectionState>>
  /\ pc' = 0
  /\ UNCHANGED <<pcCount, tracked, pendingAudioTrack, attachLog, delivered>>
  /\ UNCHANGED OutsideMedia

MediaNext ==
  \/ CreatePeerConnection
  \/ \E p \in PcIds : OnTrack(p)
  \/ \E p \in PcIds, state \in {"checking", "connected", "completed",
                                "disconnected", "failed"} : IceStateChange(p, state)
  \/ \E track \in PcIds : AudioFrame(track)
  \/ \E track \in PcIds : TrackEnded(track)
  \/ MediaDisconnect

SpecMedia == Init /\ [][MediaNext]_vars

\* ------------------------------------------------------------- claims: media
\* a pending track meets a connected or completed this.pc
C26_PendingStep ==
  (/\ pendingAudioTrack # 0
   /\ ~IsConnected(pc, iceConnectionState)
   /\ pc' = pc
   /\ IsConnected(pc, iceConnectionState')) =>
     /\ attachLog' = Append(attachLog,
          [track |-> pendingAudioTrack, via |-> "pending",
           state |-> iceConnectionState'[pc]])
     /\ pendingAudioTrack' = 0

\* C26: a sink is attached only while the ICE state is connected or
\* completed; a track that came earlier is held as pending and attached,
\* once, when the state reaches connected or completed; no track is
\* attached twice and no frame reaches onAudioData without an attached sink
C26_SinkAfterConnectivity ==
  /\ [](/\ \A i \in 1..Len(attachLog) : attachLog[i].state \in IceConnected
        /\ \A i, j \in 1..Len(attachLog) :
              attachLog[i].track = attachLog[j].track => i = j
        /\ delivered => attachLog # <<>>)
  /\ [][C26_PendingStep]_vars

\* C26: a track that was held as pending has been attached and has
\* delivered a frame
C26_Witness ==
  /\ \E i \in 1..Len(attachLog) : attachLog[i].via = "pending"
  /\ pendingAudioTrack = 0
  /\ delivered

\* ------------------------------------------------------------- claims: candidate order
\* C31: the candidates reach the bridge in generation order (candidates are
\* numbered as they are generated): none that was generated after callUuid
\* was set is sent before an earlier one that still waits in the queue
C31_SentInGenerationOrder ==
  \A i, j \in 1..Len(sent) : i < j => sent[i][1] < sent[j][1]

\* ------------------------------------------------------------- claims: failed connect
\* C32: when connect() has failed at a step after the token was acquired,
\* no token refresh timer of the attempt remains scheduled
C32_FailedConnectLeavesNoTimer ==
  (connPc = "failed" /\ obs.failedAt # StepRequestToken) => refreshTimers = {}


\* ------------------------------------------------------------- claims: refresh in flight
\* C33: once a disconnect() that tore the session down has returned (and no
\* new connect() has begun), no token refresh timer is scheduled, whether or
\* not a refreshToken request was in flight when disconnect() began
C33_NoTimerAfterDisconnect ==
  (connPc = "done" /\ ~isRunning /\ \A d \in DOMAIN dpc : dpc[d] = "idle")
    => refreshTimers = {}


\* ------------------------------------------------------------- claims: events after disconnect
\* C34: after disconnect() has begun, no poll loop hands a bridge event to
\* the media session (handleRemoteOffer, addIceCandidate) and none goes on
\* to the ack of a renegotiation
C34_NoDispatchAfterDisconnect ==
  [][DisconnectBegun =>
       \A l \in LoopIds :
         /\ ~HandleNewOffer(l)
         /\ \A ok \in BOOLEAN : ~HandleNewCandidate(l, ok) /\ ~OfferReturn(l, ok)]_vars


\* ------------------------------------------------------------- claims: the current speaker
\* the participants in the map whose isSpeaking is true
Speaking == {u \in Uuids : participants[u].present /\ participants[u].isSpeaking}

\* C35: currentSpeaker is set exactly when a participant is speaking; that
\* participant is the only one speaking, is the one currentSpeaker names and
\* is in the participant map
C35_CurrentSpeakerIsTheSpeaker ==
  /\ Cardinality(Speaking) <= 1
  /\ (currentSpeaker # 0) <=> (Speaking # {})
  /\ currentSpeaker # 0 => Speaking = {currentSpeaker}


\* ------------------------------------------------------------- claims: chunk numbering
\* C37: the chunks of one track carry strictly increasing (so pairwise
\* distinct) sequence numbers in emission order, the final chunk of a flush
\* and the chunks after a flush or a stop of the track included
C37_ChunkNumbersIncrease ==
  \A i, j \in 1..Len(chunks) :
    i < j => chunks[i].chunkNumber < chunks[j].chunkNumber


\* ------------------------------------------------------------- claims: speaker attribution
\* C36: every chunk handed to onChunkReady while a speaker tracker is
\* attached, the final chunk of stopTrack included, got its speaker from
\* exactly one getSpeakerAtTime call
C36_OneLookupPerChunk ==
  \A i \in 1..Len(speakerLookups) :
    speakerLookups[i].tracker => speakerLookups[i].lookups = 1


\* ------------------------------------------------------------- claims: session configuration
\* C38: in the OpenAIProvider class the session configuration is sent once
\* at most on a socket, no audio append leaves before it, and the deferred
\* initializeSession never runs on a socket the 'close' handler has removed
C38_SessionConfiguredFirst ==
  [][adapter = "OpenAIProvider" =>
       /\ sends' > sends => sessionConfigs = 1
       /\ sessionConfigs' <= 1
       /\ ~initThrew']_vars


\* ------------------------------------------------------------- item ordering
\* The provider numbers the items of a session 1, 2, ... as it commits them.
\* The 'committed' message of item k comes before its 'completed' message;
\* the messages of different items interleave freely.

\* message.previous_item_id of the 'committed' message of item k: the item
\* committed before it, none (0) for the first
PreviousItemOf(k) == k - 1

\* everything but the item ordering's variables
OutsideOrder ==
  <<connVars, trackerVars, audioVars, timingVars, resampleVars, transcriptVars,
    adapterVars, collabVars, mediaVars, serverVars>>

\* handleMessage, case 'input_audio_buffer.committed', of the next item
Committed ==
  /\ committedItems < MaxCommitted
  /\ committedItems' = committedItems + 1
  /\ adapterPreviousItemId' = PreviousItemOf(committedItems + 1)
  /\ adapterCurrentItemId' = committedItems + 1
  /\ UNCHANGED <<completedItems, finals>>
  /\ UNCHANGED OutsideOrder

\* the previousItemId of the transcriptionComplete event of item k:
\* this.previousItemId, whichever item it was last set for
PreviousOfEvent(k) == adapterPreviousItemId

\* handleMessage, case 'conversation.item.input_audio_transcription.completed',
\* of a committed item k: transcriptionComplete is emitted
Completed(k) ==
  /\ k \in 1..committedItems
  /\ k \notin completedItems
  /\ completedItems' = completedItems \cup {k}
  /\ finals' = Append(finals, [itemId |-> k, previousItemId |-> PreviousOfEvent(k)])
  /\ UNCHANGED <<adapterPreviousItemId, adapterCurrentItemId, committedItems>>
  /\ UNCHANGED OutsideOrder

OrderNext ==
  \/ Committed
  \/ \E k \in 1..MaxCommitted : Completed(k)

\* the 'committed' and 'completed' messages of one session
SpecOrder == Init /\ [][OrderNext]_vars

\* ------------------------------------------------------------- claims: item ordering
\* C39: every transcriptionComplete event carries, as previousItemId, the
\* previous_item_id of the 'committed' message of its own item
C39_PreviousOfOwnCommit ==
  \A i \in 1..Len(finals) :
    finals[i].previousItemId = PreviousItemOf(finals[i].itemId)


\* ------------------------------------------------------------- control server
\* everything but the control server's variables
OutsideServer ==
  <<connVars, trackerVars, audioVars, timingVars, resampleVars, transcriptVars,
    adapterVars, collabVars, mediaVars, orderVars>>

\* the search of the dial-in handler: an active connection to the conference
ExistingConnection(alias) ==
  {c \in activeConnections : c.conferenceAlias = alias /\ c.isActive}

\* activeConnections.set(connectionId, connectionInfo): an entry with the
\* same key is replaced
MapSetConnection(info) ==
  {c \in activeConnections : c.id # info.id} \cup {info}

\* POST /api/dial-in arrives: connectionId is made of the alias and
\* Date.now(); with an active connection to the conference the answer is
\* 409, else the handler runs to 'await transcriptionService.connect()'
DialIn(r, alias) ==
  /\ requests[r].pc = "none"
  /\ requests' = [requests EXCEPT ![r] =
                    [pc |-> IF ExistingConnection(alias) # {}
                              THEN "rejected" ELSE "connectService",
                     conferenceAlias |-> alias,
                     id |-> <<alias, clock>>]]
  /\ UNCHANGED <<activeConnections, joined, clock>>
  /\ UNCHANGED OutsideServer

\* transcriptionService.connect() resolved (ok) or threw: the handler goes
\* on to 'await connection.connect()' or answers 500
ServiceConnectReturn(r, ok) ==
  /\ requests[r].pc = "connectService"
  /\ requests' = [requests EXCEPT ![r].pc =
                    IF ok THEN "connectPexip" ELSE "failed"]
  /\ UNCHANGED <<activeConnections, joined, clock>>
  /\ UNCHANGED OutsideServer

\* the registration of the dial-in handler: the bot has joined, the
\* connection is stored under connectionId and the answer is 200
Register(r) ==
  /\ requests' = [requests EXCEPT ![r].pc = "registered"]
  /\ joined' = joined \cup {r}
  /\ activeConnections' =
       MapSetConnection([id |-> requests[r].id,
                         conferenceAlias |-> requests[r].conferenceAlias,
                         isActive |-> TRUE, req |-> r])

\* connection.connect() resolved (ok) or threw
PexipConnectReturn(r, ok) ==
  /\ requests[r].pc = "connectPexip"
  /\ IF ok
       THEN Register(r)
       ELSE /\ requests' = [requests EXCEPT ![r].pc = "failed"]
            /\ UNCHANGED <<activeConnections, joined>>
  /\ clock' = clock
  /\ UNCHANGED OutsideServer

\* POST /api/hang-up finds a stored connection (by its id or its alias) and
\* runs to 'await targetConnection.connection.disconnect()'
HangUp(c) ==
  /\ c \in activeConnections
  /\ requests[c.req].pc = "registered"
  /\ requests' = [requests EXCEPT ![c.req].pc = "hangUp"]
  /\ UNCHANGED <<activeConnections, joined, clock>>
  /\ UNCHANGED OutsideServer

\* the disconnects of the hang-up handler are over: the bot has left, the
\* connection is marked inactive and deleted by its id
HangUpReturn(r) ==
  /\ requests[r].pc = "hangUp"
  /\ joined' = joined \ {r}
  /\ activeConnections' = {d \in activeConnections : d.id # requests[r].id}
  /\ requests' = [requests EXCEPT ![r].pc = "ended"]
  /\ clock' = clock
  /\ UNCHANGED OutsideServer

\* a millisecond passes
ServerTick ==
  /\ clock < MaxClock
  /\ clock' = clock + 1
  /\ UNCHANGED <<activeConnections, requests, joined>>
  /\ UNCHANGED OutsideServer

ServerNext ==
  \/ \E r \in RequestIds, alias \in Aliases : DialIn(r, alias)
  \/ \E r \in RequestIds, ok \in BOOLEAN : ServiceConnectReturn(r, ok)
  \/ \E r \in RequestIds, ok \in BOOLEAN : PexipConnectReturn(r, ok)
  \/ \E c \in activeConnections : HangUp(c)
  \/ \E r \in RequestIds : HangUpReturn(r)
  \/ ServerTick

\* the control server
SpecServer == Init /\ [][ServerNext]_vars

\* ------------------------------------------------------------- claims: control server
\* C40: no conference has two active connections in the server's map, and
\* no conference has two bots of the server in it
C40_OneBotPerConference ==
  \A a \in Aliases :
    /\ Cardinality(ExistingConnection(a)) <= 1
    /\ Cardinality({r \in joined : requests[r].conferenceAlias = a}) <= 1

====
